---- MODULE Spec2Model ----
(***************************************************************************)
(* Model of the dialogue orchestrator: session store, welcome-back policy, *)
(* mode router, the two turn-execution disciplines of                      *)
(* ConversationEngine.process_user_message, the companion tools with their *)
(* per-user dedup caches, profile normalization and the region-scoped      *)
(* facility search.                                                        *)
(*                                                                         *)
(* Texts are TLA+ strings; the Korean literals of the source are written   *)
(* as ASCII stand-ins that keep their structure (prefix, title, suffix).   *)
(* Time is counted in minutes; a stored timestamp is the record            *)
(* [k |-> "iso", t |-> minutes] produced by datetime.now().isoformat().    *)
(***************************************************************************)
EXTENDS Integers, Sequences, FiniteSets, TLC

\* ------------------------------------------------------------------------
\* Bounds of the model
\* ------------------------------------------------------------------------
MaxTurns == 2
MaxTicks == 2
MaxRounds == 2
MaxCalls == 1
MaxMatches == 2
MaxFaults == 1

\* ------------------------------------------------------------------------
\* Program constants
\* ------------------------------------------------------------------------
WELCOME_COOLDOWN_MINUTES == 30
MinutesPerDay == 1440
HistoryWindow == 8
RecommendLimit == 3
FacilityBudget == 10

ERROR_TEXT == "system error"
DB_ERROR_TEXT == "DB connection error"
NOTHING_NEW_TEXT == "nothing new found"
GLOBAL_KEY == "__global__"

\* ------------------------------------------------------------------------
\* Input domains
\* ------------------------------------------------------------------------
Users == {"u1", "u2"}
Modes == {"chat", "info", "diary"}
Texts == {"bored"}
ReplyTexts == {"", "answer"}
TickDeltas == {WELCOME_COOLDOWN_MINUTES, WELCOME_COOLDOWN_MINUTES + 1, MinutesPerDay}

\* ------------------------------------------------------------------------
\* Small helpers
\* ------------------------------------------------------------------------
Range(s) == {s[i] : i \in 1..Len(s)}

SeqsUpTo(S, n) == UNION {[1..m -> S] : m \in 0..n}

\* the whole list, whatever n
LastNKeepsAll(lst, n) == lst

\* lst[-n:]
LastN(lst, n) == IF Len(lst) <= n THEN lst ELSE SubSeq(lst, Len(lst) - n + 1, Len(lst))

\* ------------------------------------------------------------------------
\* Timestamps
\* ------------------------------------------------------------------------
NullVisit == [k |-> "null", t |-> 0]
EmptyVisit == [k |-> "empty", t |-> 0]
BadVisit == [k |-> "bad", t |-> 0]

\* datetime.now().isoformat()
IsoFormat(t) == [k |-> "iso", t |-> t]

\* datetime.fromisoformat(s) succeeds
IsoParses(v) == v.k = "iso"

\* python truthiness of the stored last_visit value
VisitTruthy(v) == v.k \in {"iso", "bad"}

\* ------------------------------------------------------------------------
\* State
\* ------------------------------------------------------------------------
VARIABLES
    now,               \* wall clock read by datetime.now(), in minutes
    ticks,             \* number of clock advances so far
    last_ok,           \* clock reading when the latest successful call of each user returned
    store,             \* sessions/<user_id>.json, one record per user
    users_profile,     \* the raw profile kept for each user in users.json
    merges,            \* number of profile merges performed
    faults,            \* storage faults so far
    inflight,          \* session-store writes in progress, one per writer
    recommended,       \* _recommended_activities_by_user
    asked,             \* _asked_questions_by_user
    returned,          \* activity labels every recommendation call has returned, per cache key
    clients,           \* recommend_ba lazy client state
    info_clients,      \* search_info client state
    running,           \* companion tool calls in progress, one per thread
    pc,                \* position inside process_user_message
    turns,             \* number of process_user_message calls started
    call,              \* arguments of the running call
    pre,               \* stored record of the user when the call started
    pre_seen,          \* the two seen-sets when the call started
    session,           \* the session loaded at the start of the call
    welcome_text,      \* greeting chosen for the call, "" standing for None
    messages,          \* message sequence of the turn
    llm_input,         \* input of the latest model invocation
    ai_msg,            \* latest reply of the model
    pending,           \* tool calls of the reply still to be handled
    tool_messages,     \* tool results collected in the manual discipline
    invocations,       \* model invocations of the turn
    tools_run,         \* tools executed in the turn
    rounds,            \* tool rounds of the turn
    ran,               \* executors that have run in the turn
    response_text,
    writes_ok,         \* every session-store write of the turn took effect
    result,            \* outcome of the call: returned text or raised fault
    tool_call          \* latest direct tool or helper call with its outcome

storeVars == <<store, users_profile, merges, faults, inflight>>
cacheVars == <<recommended, asked, returned, clients, info_clients, running>>
clockVars == <<now, ticks, last_ok>>
turnVars == <<pc, turns, call, pre, pre_seen, session, welcome_text, messages, llm_input, ai_msg,
              pending, tool_messages, invocations, tools_run, rounds, ran,
              response_text, writes_ok, result>>
vars == <<clockVars, storeVars, cacheVars, turnVars, tool_call>>

\* ------------------------------------------------------------------------
\* Profiles: a profile is a function from the keys it holds to strings.
\* dict.get of a missing key and of an empty value are both falsy, and a
\* falsy value is never stored by the code below, so Get yields "" for both.
\* ------------------------------------------------------------------------
ExplicitKeys == {"name", "mobility", "activity_range", "emotion"}
RawKeys == {"A1", "A2", "A4", "B1"}
ProfileKeys == ExplicitKeys \cup RawKeys

Get(p, k) == IF k \in DOMAIN p THEN p[k] ELSE ""

\* a or b
Or(a, b) == IF a # "" THEN a ELSE b

\* d[k] = v on a copy of d
SetKey(d, k, v) == [x \in DOMAIN d \cup {k} |-> IF x = k THEN v ELSE d[x]]

\* d[k] = v if v is truthy
SetIf(d, k, v) == IF v # "" THEN SetKey(d, k, v) ELSE d

\* {**current, **profile}
Merge(current, profile) ==
    [x \in DOMAIN current \cup DOMAIN profile |->
        IF x \in DOMAIN profile THEN profile[x] ELSE current[x]]

\* the activity range falls back on the mobility already stored
NormalizeProfileFromStored(profile, current) ==
    LET name == Or(Get(profile, "name"), Get(profile, "A1"))
        mobility == Or(Or(Get(profile, "mobility"), Get(profile, "A2")), Get(profile, "A4"))
        activity_range == Or(Or(Or(Get(profile, "activity_range"), Get(current, "mobility")),
                                Get(profile, "A2")), Get(profile, "A4"))
        emotion == Or(Get(profile, "emotion"), Get(profile, "B1"))
        n0 == Merge(current, profile)
        n1 == SetIf(n0, "name", name)
        n2 == SetIf(n1, "mobility", mobility)
        n3 == SetIf(n2, "activity_range", activity_range)
    IN  SetIf(n3, "emotion", emotion)

NormalizeProfile(profile, current) ==
    LET name == Or(Get(profile, "name"), Get(profile, "A1"))
        mobility == Or(Or(Get(profile, "mobility"), Get(profile, "A2")), Get(profile, "A4"))
        activity_range == Or(Or(Get(profile, "activity_range"), Get(profile, "A2")), Get(profile, "A4"))
        emotion == Or(Get(profile, "emotion"), Get(profile, "B1"))
        n0 == Merge(current, profile)
        n1 == SetIf(n0, "name", name)
        n2 == SetIf(n1, "mobility", mobility)
        n3 == SetIf(n2, "activity_range", activity_range)
    IN  SetIf(n3, "emotion", emotion)

\* ------------------------------------------------------------------------
\* Session store
\* ------------------------------------------------------------------------
DefaultProfile == [x \in {"name", "mobility", "emotion"} |-> ""]

\* no call of the user has returned yet
NoTurnYet == [u \in Users |-> -1]

NoFile == [exists |-> FALSE, last_visit |-> NullVisit,
           user_profile |-> DefaultProfile, conversation_history |-> <<>>]

\* load_session: the stored record when the file exists and can be read,
\* the default session otherwise. Files written by save_session hold every
\* field, so the setdefault calls change nothing.
LoadSession(u, readOk) ==
    IF store[u].exists /\ readOk THEN store[u] ELSE NoFile

\* save_session: the write is swallowed when it fails
SaveSession(u, data, writeOk) ==
    IF writeOk THEN [store EXCEPT ![u] = [data EXCEPT !.exists = TRUE]] ELSE store

MessageEntry(t, role, content) == [timestamp |-> t, role |-> role, content |-> content]

AddMessage(u, role, content, readOk, writeOk) ==
    LET s == LoadSession(u, readOk)
    IN  SaveSession(u, [s EXCEPT !.conversation_history =
                            Append(@, MessageEntry(now, role, content))], writeOk)

UpdateLastVisit(u, readOk, writeOk) ==
    LET s == LoadSession(u, readOk)
    IN  SaveSession(u, [s EXCEPT !.last_visit = IsoFormat(now)], writeOk)

UpdateUserProfile(u, profile, readOk, writeOk) ==
    LET s == LoadSession(u, readOk)
    IN  SaveSession(u, [s EXCEPT !.user_profile = NormalizeProfile(profile, @)], writeOk)

\* callers that write the session store side by side (two server processes
\* sharing the sessions directory)
Writers == {"w1", "w2"}

\* a writer: the operation in progress, the record it loaded, whether another
\* writer saved since (stale), and what it has completed so far
IdleWriter == [op |-> "none", stage |-> "idle", snapshot |-> NoFile, stale |-> FALSE,
               wrote |-> FALSE, done |-> 0, adds |-> 0, clobbered |-> FALSE]

NoWriters == [w \in Writers |-> IdleWriter]

\* a read can only fail on a file that exists
ReadOutcome(u, readOk) == readOk \/ store[u].exists

\* the storage faults among the outcomes of reads and writes
FaultsIn(outcomes) == Cardinality({i \in 1..Len(outcomes) : ~outcomes[i]})

\* storage faults are drawn while the fault budget lasts
Faulting(outcomes) ==
    /\ faults + FaultsIn(outcomes) <= MaxFaults
    /\ faults' = faults + FaultsIn(outcomes)

\* ------------------------------------------------------------------------
\* Welcome-back policy
\* ------------------------------------------------------------------------
HonorificTitle(name) == IF name # "" THEN name \o "-nim" ELSE "nim"

FIRST_TIME_PREFIX == "Hello, "
FIRST_TIME_SUFFIX == " how are you today?"
CONTINUE_SUFFIX == " you are back, shall we continue?"
SLEPT_WELL_SUFFIX == " did you rest well overnight?"
LONG_TIME_SUFFIX == " long time no see!"

\* (datetime.now() - last).days, floor of the whole days
DaysDiff(t, last) == (t - last) \div MinutesPerDay

GetWelcomeMessage(s, t) ==
    LET name == Or(Get(s.user_profile, "name"), Get(s.user_profile, "A1"))
        title == HonorificTitle(name)
    IN  IF ~VisitTruthy(s.last_visit) THEN FIRST_TIME_PREFIX \o title \o FIRST_TIME_SUFFIX
        ELSE IF ~IsoParses(s.last_visit) THEN FIRST_TIME_PREFIX \o title
        ELSE IF DaysDiff(t, s.last_visit.t) = 0 THEN title \o CONTINUE_SUFFIX
        ELSE IF DaysDiff(t, s.last_visit.t) = 1 THEN title \o SLEPT_WELL_SUFFIX
        ELSE title \o LONG_TIME_SUFFIX

\* the cooldown counts as passed at exactly 30 minutes
ShouldShowWelcomeAtCooldown(s, mode, t) ==
    IF mode # "chat" THEN FALSE
    ELSE IF ~VisitTruthy(s.last_visit) \/ s.conversation_history = <<>> THEN FALSE
    ELSE IF ~IsoParses(s.last_visit) THEN FALSE
    ELSE t - s.last_visit.t >= WELCOME_COOLDOWN_MINUTES

ShouldShowWelcome(s, mode, t) ==
    IF mode # "chat" THEN FALSE
    ELSE IF ~VisitTruthy(s.last_visit) \/ s.conversation_history = <<>> THEN FALSE
    ELSE IF ~IsoParses(s.last_visit) THEN FALSE
    ELSE t - s.last_visit.t > WELCOME_COOLDOWN_MINUTES

\* ------------------------------------------------------------------------
\* Companion tools and their dedup cache
\* ------------------------------------------------------------------------
TOOLS == {"recommend_activities_tool", "search_empathy_questions_tool"}

TOOLS_INFO == {"search_public_funeral_ordinance", "search_cremation_subsidy_ordinance",
               "search_funeral_facilities", "search_digital_legacy", "search_legacy"}

CacheKeys == Users \cup {GLOBAL_KEY}

\* threads that run companion tools side by side
Threads == {"t1", "t2"}

\* a thread: the tool it runs, how far it got, the labels its loop picked,
\* those of them another call had already picked (dup), and whether another
\* call was between its loop and its update while this one ran (overlapped)
IdleThread == [op |-> "none", stage |-> "idle", picked |-> <<>>, dup |-> {},
               overlapped |-> FALSE, calls |-> 0]

NoRunning == [t \in Threads |-> IdleThread]

\* metadata of the matches the vector index can return
MetaSet == {[activity_kr |-> "walk", activity |-> "stroll"],
            [activity_kr |-> "music", activity |-> ""],
            [activity_kr |-> "", activity |-> "radio"],
            [activity_kr |-> "", activity |-> ""]}

\* meta.get("activity_kr") or meta.get("activity") or ""
ActivityOf(meta) == Or(Or(meta.activity_kr, meta.activity), "")

Activities == {ActivityOf(m) : m \in MetaSet} \ {""}

\* a companion tool attempts the initialisation at every call until it succeeds
EnsureClientsRetries(state, initOk) ==
    IF state = "ready" THEN state
    ELSE IF initOk THEN "ready" ELSE "failed"

\* _ensure_clients: one attempt per process
EnsureClients(state, initOk) ==
    IF state # "unattempted" THEN state
    ELSE IF initOk THEN "ready" ELSE "failed"

\* every caller shares the one entry
CacheKeyShared(user_id) == GLOBAL_KEY

\* user_id or "__global__"
CacheKey(user_id) == IF user_id # "" THEN user_id ELSE GLOBAL_KEY

\* the loop over res["matches"]: the labels picked, in order
RECURSIVE RecommendScan(_, _, _, _)
RecommendScan(matches, i, already, picked) ==
    IF i > Len(matches) \/ Len(picked) >= RecommendLimit THEN picked
    ELSE LET activity == ActivityOf(matches[i])
         IN  IF activity = "" \/ activity \in already \/ activity \in Range(picked)
             THEN RecommendScan(matches, i + 1, already, picked)
             ELSE RecommendScan(matches, i + 1, already, Append(picked, activity))

ResultLine(activity) == "- " \o activity \o " (effect)"

\* "\n".join(lines)
RECURSIVE JoinLines(_)
JoinLines(lines) ==
    IF lines = <<>> THEN ""
    ELSE IF Len(lines) = 1 THEN lines[1]
    ELSE lines[1] \o "\n" \o JoinLines(Tail(lines))

\* the labels are collected but the shared cache entry is left as it was
RecommendRecordNothing(already, picked) == already

\* only the first label returned is recorded
RecommendRecordFirst(already, picked) ==
    IF picked = <<>> THEN already ELSE already \cup {picked[1]}

\* the cache entry of the user after the call
RecommendRecord(already, picked) ==
    IF picked = <<>> THEN already ELSE already \cup Range(picked)

\* recommend_activities_tool once the clients are known: the returned text,
\* the labels it carries and the new cache
RecommendActivitiesTool(state, user_id, matches, cache) ==
    IF state # "ready"
    THEN [text |-> DB_ERROR_TEXT, labels |-> <<>>, cache |-> cache]
    ELSE LET uid == CacheKey(user_id)
             picked == RecommendScan(matches, 1, cache[uid], <<>>)
         IN  [text |-> IF picked = <<>> THEN NOTHING_NEW_TEXT
                       ELSE JoinLines([i \in 1..Len(picked) |-> ResultLine(picked[i])]),
              labels |-> picked,
              cache |-> [cache EXCEPT ![uid] = RecommendRecord(@, picked)]]

\* ------------------------------------------------------------------------
\* Language model replies and messages
\* ------------------------------------------------------------------------
RequestedNames == {"search_legacy", "recommend_activities_tool", "missing_tool"}

CallId(i) == IF i = 1 THEN "call_1" ELSE IF i = 2 THEN "call_2" ELSE "call_n"

ToolCallLists ==
    {[i \in 1..Len(names) |-> [name |-> names[i], id |-> CallId(i)]] :
        names \in SeqsUpTo(RequestedNames, MaxCalls)}

LLMReplies == [content : ReplyTexts, tool_calls : ToolCallLists]

NoReply == [content |-> "", tool_calls |-> <<>>]

Msg(type, content, tool_calls, tool_call_id) ==
    [type |-> type, content |-> content, tool_calls |-> tool_calls, tool_call_id |-> tool_call_id]

SystemMessage(content) == Msg("system", content, <<>>, "")
HumanMessage(content) == Msg("human", content, <<>>, "")
AIMessage(reply) == Msg("ai", reply.content, reply.tool_calls, "")
ToolMessage(content, id) == Msg("tool", content, <<>>, id)

INFO_SYSTEM_PROMPT == "info system prompt"
EMPATHY_SYSTEM_PROMPT == "companion system prompt"

NotFoundText(name) == "'" \o name \o "' tool not found"
ToolFailedText(cause) == "tool execution failed: " \o cause

\* the history window handed to the persona (lines 113-122)
HistoryMessages(history) ==
    LET recent == SelectSeq(LastN(history, HistoryWindow),
                            LAMBDA m : m.role \in {"user", "assistant"})
    IN  [i \in 1..Len(recent) |->
            IF recent[i].role = "user" THEN HumanMessage(recent[i].content)
            ELSE Msg("ai", recent[i].content, <<>>, "")]

\* ------------------------------------------------------------------------
\* Mode router
\* ------------------------------------------------------------------------
MISSING == "<missing>"

\* every mode but "chat" goes to the information persona
RouteModeChatOnly(current_mode) ==
    LET mode == IF current_mode = MISSING THEN "chat" ELSE current_mode
    IN  IF mode = "chat" THEN "empathy_agent" ELSE "info_agent"

\* state.get("current_mode", "chat")
RouteMode(current_mode) ==
    LET mode == IF current_mode = MISSING THEN "chat" ELSE current_mode
    IN  IF mode = "info" THEN "info_agent" ELSE "empathy_agent"

\* _should_continue
ShouldContinue(last_message) ==
    IF last_message.tool_calls # <<>> THEN "tools" ELSE "END"

\* ------------------------------------------------------------------------
\* process_user_message, step by step
\* ------------------------------------------------------------------------
NoCall == [user_id |-> "", text |-> "", mode |-> "chat"]
NoResult == [kind |-> "none", value |-> ""]
NoToolCall == [op |-> "none"]
NoSeen == [recommended |-> [k \in CacheKeys |-> {}], asked |-> [k \in CacheKeys |-> {}]]

\* how a call ends: a returned reply, the fixed fallback text, or a fault
\* that leaves process_user_message
Returned(text) == [kind |-> "returned", value |-> text]
Fallback == [kind |-> "fallback", value |-> ERROR_TEXT]
Raised(cause) == [kind |-> "raised", value |-> cause]

InfoPcs == {"info_first", "info_tools"}
GraphPcs == {"empathy_agent", "info_agent", "tools", "info_tools_node"}
CommitPcs == {"append_user", "append_assistant", "update_visit"}

\* lines 136 and 143: which executor runs the turn
Dispatch(mode) == IF mode = "info" THEN "info_first" ELSE RouteMode(mode)

\* lines 105-131 and 181-183: load the session, decide on the greeting and
\* build the message sequence
Call(u, text, mode, readOk, readOk2) ==
    /\ pc = "idle"
    /\ turns < MaxTurns
    /\ Faulting(<<readOk, readOk2>>)
    /\ ReadOutcome(u, readOk)
    /\ ReadOutcome(u, readOk2)
    /\ LET s == LoadSession(u, readOk)
           hist == HistoryMessages(s.conversation_history)
       IN  /\ session' = s
           /\ welcome_text' = IF ShouldShowWelcome(s, mode, now)
                              THEN GetWelcomeMessage(LoadSession(u, readOk2), now)
                              ELSE ""
           /\ messages' = IF mode = "info"
                          THEN <<SystemMessage(INFO_SYSTEM_PROMPT)>> \o hist \o <<HumanMessage(text)>>
                          ELSE hist \o <<HumanMessage(text)>>
    /\ call' = [user_id |-> u, text |-> text, mode |-> mode]
    /\ pre' = store[u]
    /\ pre_seen' = [recommended |-> recommended, asked |-> asked]
    /\ turns' = turns + 1
    /\ pc' = Dispatch(mode)
    /\ llm_input' = <<>>
    /\ ai_msg' = NoReply
    /\ pending' = <<>>
    /\ tool_messages' = <<>>
    /\ invocations' = 0
    /\ tools_run' = 0
    /\ rounds' = 0
    /\ ran' = {}
    /\ response_text' = ""
    /\ writes_ok' = TRUE
    /\ result' = NoResult
    /\ UNCHANGED <<clockVars, store, users_profile, merges, inflight, cacheVars, tool_call>>

\* ---- manual single-pass discipline (_run_info_flow) ----

\* line 184: the first invocation raises; nothing catches it
InfoFirstRaises ==
    /\ pc = "info_first"
    /\ invocations' = invocations + 1
    /\ llm_input' = messages
    /\ ran' = ran \cup {"info_flow"}
    /\ result' = Raised("model fault")
    /\ pc' = "done"
    /\ UNCHANGED <<clockVars, storeVars, cacheVars, tool_call, turns, call, pre, pre_seen, session,
                   welcome_text, messages, ai_msg, pending, tool_messages, tools_run,
                   rounds, response_text, writes_ok>>

\* the second invocation follows also a reply that asks for no tool
InfoFirstInvokeAlwaysSecond(reply) ==
    /\ pc = "info_first"
    /\ invocations' = invocations + 1
    /\ llm_input' = messages
    /\ ran' = ran \cup {"info_flow"}
    /\ ai_msg' = reply
    /\ response_text' = response_text
    /\ pc' = "info_tools"
    /\ pending' = reply.tool_calls
    /\ tool_messages' = <<>>
    /\ UNCHANGED <<clockVars, storeVars, cacheVars, tool_call, turns, call, pre, pre_seen, session,
                   welcome_text, messages, tools_run, rounds, writes_ok, result>>

\* lines 184-187
InfoFirstInvoke(reply) ==
    /\ pc = "info_first"
    /\ invocations' = invocations + 1
    /\ llm_input' = messages
    /\ ran' = ran \cup {"info_flow"}
    /\ ai_msg' = reply
    /\ IF reply.tool_calls = <<>>
       THEN /\ response_text' = reply.content
            /\ pc' = "append_user"
            /\ pending' = <<>>
       ELSE /\ response_text' = response_text
            /\ pc' = "info_tools"
            /\ pending' = reply.tool_calls
    /\ tool_messages' = <<>>
    /\ UNCHANGED <<clockVars, storeVars, cacheVars, tool_call, turns, call, pre, pre_seen, session,
                   welcome_text, messages, tools_run, rounds, writes_ok, result>>

InfoToolOutcomes == {"documents", DB_ERROR_TEXT, "raise"}

\* what the manual flow did with one requested call: the call, how it ended
\* and the position of its result among the tool results of the turn
InfoToolRecord(c, outcome, at) ==
    [op |-> "info_tool", name |-> c.name, id |-> c.id, outcome |-> outcome, at |-> at]

\* an unknown tool name gets no result at all
InfoToolStepSkipsUnknown(outcome) ==
    /\ pc = "info_tools"
    /\ pending # <<>>
    /\ LET c == Head(pending)
       IN  IF c.name \notin TOOLS_INFO
           THEN /\ outcome = "documents"
                /\ tool_messages' = tool_messages
                /\ tools_run' = tools_run
                /\ tool_call' = InfoToolRecord(c, "not_found", Len(tool_messages))
           ELSE /\ tool_messages' = Append(tool_messages,
                     ToolMessage(IF outcome = "raise" THEN ToolFailedText("fault") ELSE outcome,
                                 c.id))
                /\ tools_run' = tools_run + 1
                /\ tool_call' = InfoToolRecord(c, outcome, Len(tool_messages'))
    /\ pending' = Tail(pending)
    /\ UNCHANGED <<clockVars, storeVars, cacheVars, pc, turns, call, pre, pre_seen, session,
                   welcome_text, messages, llm_input, ai_msg, invocations, rounds, ran,
                   response_text, writes_ok, result>>

\* a raising tool ends the turn with its exception
InfoToolStepPropagates(outcome) ==
    /\ pc = "info_tools"
    /\ pending # <<>>
    /\ LET c == Head(pending)
       IN  IF c.name \notin TOOLS_INFO
           THEN /\ outcome = "documents"
                /\ tool_messages' = Append(tool_messages, ToolMessage(NotFoundText(c.name), c.id))
                /\ tools_run' = tools_run
                /\ tool_call' = InfoToolRecord(c, "not_found", Len(tool_messages'))
                /\ UNCHANGED <<pc, result>>
           ELSE /\ tools_run' = tools_run + 1
                /\ IF outcome = "raise"
                   THEN /\ tool_messages' = tool_messages
                        /\ tool_call' = InfoToolRecord(c, outcome, Len(tool_messages))
                        /\ result' = Raised("fault")
                        /\ pc' = "done"
                   ELSE /\ tool_messages' = Append(tool_messages, ToolMessage(outcome, c.id))
                        /\ tool_call' = InfoToolRecord(c, outcome, Len(tool_messages'))
                        /\ UNCHANGED <<pc, result>>
    /\ pending' = Tail(pending)
    /\ UNCHANGED <<clockVars, storeVars, cacheVars, turns, call, pre, pre_seen, session,
                   welcome_text, messages, llm_input, ai_msg, invocations, rounds, ran,
                   response_text, writes_ok>>

\* the newest tool result goes in front of the earlier ones
InfoToolStepPrepends(outcome) ==
    /\ pc = "info_tools"
    /\ pending # <<>>
    /\ LET c == Head(pending)
       IN  IF c.name \notin TOOLS_INFO
           THEN /\ outcome = "documents"
                /\ tool_messages' = <<ToolMessage(NotFoundText(c.name), c.id)>> \o tool_messages
                /\ tools_run' = tools_run
                /\ tool_call' = InfoToolRecord(c, "not_found", Len(tool_messages'))
           ELSE /\ tool_messages' = <<ToolMessage(IF outcome = "raise" THEN ToolFailedText("fault")
                                                  ELSE outcome, c.id)>> \o tool_messages
                /\ tools_run' = tools_run + 1
                /\ tool_call' = InfoToolRecord(c, outcome, Len(tool_messages'))
    /\ pending' = Tail(pending)
    /\ UNCHANGED <<clockVars, storeVars, cacheVars, pc, turns, call, pre, pre_seen, session,
                   welcome_text, messages, llm_input, ai_msg, invocations, rounds, ran,
                   response_text, writes_ok, result>>

\* lines 191-212, one requested call
\* the manual flow resolves a requested name against the companion tools too
\* and runs the recommendation tool for the user of the turn
InfoToolStepRunsCompanion(outcome) ==
    /\ pc = "info_tools"
    /\ pending # <<>>
    /\ LET c == Head(pending)
       IN  /\ tool_messages' = Append(tool_messages, ToolMessage(outcome, c.id))
           /\ tools_run' = tools_run + 1
           /\ tool_call' = InfoToolRecord(c, outcome, Len(tool_messages'))
           /\ recommended' = IF c.name \in TOOLS
                              THEN [recommended EXCEPT ![CacheKey(call.user_id)] = @ \cup {"music"}]
                              ELSE recommended
    /\ pending' = Tail(pending)
    /\ UNCHANGED <<clockVars, storeVars, asked, returned, clients, info_clients, running, pc,
                   turns, call, pre, pre_seen, session, welcome_text, messages, llm_input,
                   ai_msg, invocations, rounds, ran, response_text, writes_ok, result>>

InfoToolStep(outcome) ==
    /\ pc = "info_tools"
    /\ pending # <<>>
    /\ LET c == Head(pending)
       IN  IF c.name \notin TOOLS_INFO
           THEN /\ outcome = "documents"
                /\ tool_messages' = Append(tool_messages, ToolMessage(NotFoundText(c.name), c.id))
                /\ tools_run' = tools_run
                /\ tool_call' = InfoToolRecord(c, "not_found", Len(tool_messages'))
           ELSE /\ tool_messages' = Append(tool_messages,
                     ToolMessage(IF outcome = "raise" THEN ToolFailedText("fault") ELSE outcome,
                                 c.id))
                /\ tools_run' = tools_run + 1
                /\ tool_call' = InfoToolRecord(c, outcome, Len(tool_messages'))
    /\ pending' = Tail(pending)
    /\ UNCHANGED <<clockVars, storeVars, cacheVars, pc, turns, call, pre, pre_seen, session,
                   welcome_text, messages, llm_input, ai_msg, invocations, rounds, ran,
                   response_text, writes_ok, result>>

\* lines 214-215: the second invocation raises
InfoSecondRaises ==
    /\ pc = "info_tools"
    /\ pending = <<>>
    /\ messages' = messages \o <<AIMessage(ai_msg)>> \o tool_messages
    /\ llm_input' = messages'
    /\ invocations' = invocations + 1
    /\ result' = Raised("model fault")
    /\ pc' = "done"
    /\ UNCHANGED <<clockVars, storeVars, cacheVars, tool_call, turns, call, pre, pre_seen, session,
                   welcome_text, ai_msg, pending, tool_messages, tools_run, rounds, ran,
                   response_text, writes_ok>>

\* a second reply that asks for tools starts another tool round
InfoSecondInvokeLoops(reply) ==
    /\ pc = "info_tools"
    /\ pending = <<>>
    /\ messages' = messages \o <<AIMessage(ai_msg)>> \o tool_messages
    /\ llm_input' = messages'
    /\ invocations' = invocations + 1
    /\ ai_msg' = reply
    /\ response_text' = reply.content
    /\ pc' = IF reply.tool_calls = <<>> THEN "append_user" ELSE "info_tools"
    /\ pending' = reply.tool_calls
    /\ tool_messages' = <<>>
    /\ UNCHANGED <<clockVars, storeVars, cacheVars, tool_call, turns, call, pre, pre_seen, session,
                   welcome_text, tools_run, rounds, ran, writes_ok, result>>

\* lines 214-216
InfoSecondInvoke(reply) ==
    /\ pc = "info_tools"
    /\ pending = <<>>
    /\ messages' = messages \o <<AIMessage(ai_msg)>> \o tool_messages
    /\ llm_input' = messages'
    /\ invocations' = invocations + 1
    /\ ai_msg' = reply
    /\ response_text' = reply.content
    /\ pc' = "append_user"
    /\ UNCHANGED <<clockVars, storeVars, cacheVars, tool_call, turns, call, pre, pre_seen, session,
                   welcome_text, pending, tool_messages, tools_run, rounds, ran, writes_ok,
                   result>>

\* ---- auto-looping discipline (the compiled graph driven by app.stream) ----

\* the user message is stored before the fallback text is returned
GraphFaultCommitsUser ==
    /\ result' = Fallback
    /\ pc' = "done"
    /\ store' = AddMessage(call.user_id, "user", call.text, TRUE, TRUE)
    /\ UNCHANGED <<clockVars, users_profile, merges, inflight, faults, turns, call, pre, pre_seen, session,
                   welcome_text, messages, llm_input, ai_msg, pending, tool_messages,
                   invocations, rounds, ran, response_text, writes_ok>>

\* lines 150-152: any exception of the graph ends the call with the fixed text
GraphFault ==
    /\ result' = Fallback
    /\ pc' = "done"
    /\ UNCHANGED <<clockVars, storeVars, turns, call, pre, pre_seen, session, welcome_text, messages,
                   llm_input, ai_msg, pending, tool_messages, invocations, rounds, ran,
                   response_text, writes_ok>>

\* empathy_node raises (the model invocation fails)
EmpathyNodeRaises ==
    /\ pc = "empathy_agent"
    /\ GraphFault
    /\ UNCHANGED <<cacheVars, tool_call, tools_run>>

\* empathy_node returns a reply; lines 144-149 pick up the text of a reply
\* without tool calls; _should_continue picks the next node
EmpathyNode(reply) ==
    /\ pc = "empathy_agent"
    /\ rounds >= MaxRounds => reply.tool_calls = <<>>
    /\ llm_input' = <<SystemMessage(EMPATHY_SYSTEM_PROMPT)>> \o messages
    /\ invocations' = invocations + 1
    /\ ran' = ran \cup {"empathy_agent"}
    /\ ai_msg' = reply
    /\ messages' = Append(messages, AIMessage(reply))
    /\ response_text' = IF reply.tool_calls = <<>> THEN reply.content ELSE response_text
    /\ pending' = reply.tool_calls
    /\ pc' = IF ShouldContinue(reply) = "tools" THEN "tools" ELSE "append_user"
    /\ UNCHANGED <<clockVars, storeVars, cacheVars, tool_call, turns, call, pre, pre_seen, session,
                   welcome_text, tool_messages, tools_run, rounds, writes_ok, result>>

\* the graph ends after a tool round instead of going back to the persona
AfterToolCallEnds(rest) == IF rest = <<>> THEN "append_user" ELSE "tools"

\* back to the persona once every call of the round is handled (edge tools -> empathy_agent)
AfterToolCall(rest) == IF rest = <<>> THEN "empathy_agent" ELSE "tools"

\* the tool node runs the recommendation tool for one requested call
ToolsNodeRecommend(user_id, matches, initOk) ==
    /\ pc = "tools"
    /\ pending # <<>>
    /\ Head(pending).name = "recommend_activities_tool"
    /\ LET state == EnsureClients(clients, initOk)
           out == RecommendActivitiesTool(state, user_id, matches, recommended)
       IN  /\ clients' = state
           /\ recommended' = out.cache
           /\ asked' = asked
           /\ UNCHANGED <<info_clients, running>>
           /\ returned' = [returned EXCEPT ![CacheKey(user_id)] = @ \cup Range(out.labels)]
           /\ tool_call' = [op |-> "recommend_activities_tool", user_id |-> user_id,
                            raised |-> FALSE, text |-> out.text, labels |-> out.labels,
                            before |-> returned[CacheKey(user_id)],
                            repeats |-> IF state = "ready"
                                        THEN {ActivityOf(matches[i]) : i \in 1..Len(matches)}
                                                 \cap recommended[CacheKey(user_id)]
                                        ELSE {}]
           /\ messages' = Append(messages, ToolMessage(out.text, Head(pending).id))
    /\ tools_run' = tools_run + 1
    /\ ran' = ran \cup {"tools"}
    /\ pending' = Tail(pending)
    /\ rounds' = IF pending' = <<>> THEN rounds + 1 ELSE rounds
    /\ pc' = AfterToolCall(pending')
    /\ UNCHANGED <<clockVars, storeVars, turns, call, pre, pre_seen, session, welcome_text, llm_input,
                   ai_msg, tool_messages, invocations, response_text, writes_ok, result>>

\* the tool node answers a call of a name it does not hold with an error message
ToolsNodeUnknown ==
    /\ pc = "tools"
    /\ pending # <<>>
    /\ Head(pending).name \notin TOOLS
    /\ messages' = Append(messages, ToolMessage("not a valid tool", Head(pending).id))
    /\ ran' = ran \cup {"tools"}
    /\ pending' = Tail(pending)
    /\ rounds' = IF pending' = <<>> THEN rounds + 1 ELSE rounds
    /\ pc' = AfterToolCall(pending')
    /\ UNCHANGED <<clockVars, storeVars, cacheVars, tool_call, turns, call, pre, pre_seen, session,
                   welcome_text, llm_input, ai_msg, tool_messages, invocations, tools_run,
                   response_text, writes_ok, result>>

\* a tool raises (embedding or index query fails, before the cache is touched)
\* and the fault leaves the graph
ToolsNodeRaises ==
    /\ pc = "tools"
    /\ pending # <<>>
    /\ Head(pending).name \in TOOLS
    /\ GraphFault
    /\ tools_run' = tools_run + 1
    /\ UNCHANGED <<cacheVars, tool_call>>

\* ---- committing the turn ----

\* lines 155-156: the greeting goes in front of the reply, in the graph branch only
WithWelcomeNoBlankLine(welcome, response) ==
    IF welcome # "" THEN welcome \o response ELSE response

WithWelcome(welcome, response) ==
    IF welcome # ""
    THEN IF response # "" THEN welcome \o "\n\n" \o response ELSE welcome
    ELSE response

\* the user message is stored and the assistant message is left out
AppendUserSkipsAssistant(readOk, writeOk) ==
    /\ pc = "append_user"
    /\ ReadOutcome(call.user_id, readOk)
    /\ Faulting(<<readOk, writeOk>>)
    /\ store' = AddMessage(call.user_id, "user", call.text, readOk, writeOk)
    /\ writes_ok' = (writes_ok /\ writeOk)
    /\ pc' = "update_visit"
    /\ messages' = <<>>
    /\ llm_input' = <<>>
    /\ pending' = <<>>
    /\ tool_messages' = <<>>
    /\ UNCHANGED <<clockVars, users_profile, merges, inflight, cacheVars, tool_call, turns, call, pre, pre_seen,
                   session, welcome_text, ai_msg, invocations, tools_run, rounds, ran,
                   response_text, result>>

\* lines 138 and 154; the message sequence of the turn has gone out of scope
AppendUser(readOk, writeOk) ==
    /\ pc = "append_user"
    /\ ReadOutcome(call.user_id, readOk)
    /\ Faulting(<<readOk, writeOk>>)
    /\ store' = AddMessage(call.user_id, "user", call.text, readOk, writeOk)
    /\ writes_ok' = (writes_ok /\ writeOk)
    /\ pc' = "append_assistant"
    /\ messages' = <<>>
    /\ llm_input' = <<>>
    /\ pending' = <<>>
    /\ tool_messages' = <<>>
    /\ UNCHANGED <<clockVars, users_profile, merges, inflight, cacheVars, tool_call, turns, call, pre, pre_seen,
                   session, welcome_text, ai_msg, invocations, tools_run, rounds, ran,
                   response_text, result>>

\* lines 139 and 155-157
AppendAssistant(readOk, writeOk) ==
    /\ pc = "append_assistant"
    /\ ReadOutcome(call.user_id, readOk)
    /\ Faulting(<<readOk, writeOk>>)
    /\ response_text' = IF call.mode = "info" THEN response_text
                        ELSE WithWelcome(welcome_text, response_text)
    /\ store' = AddMessage(call.user_id, "assistant", response_text', readOk, writeOk)
    /\ writes_ok' = (writes_ok /\ writeOk)
    /\ pc' = "update_visit"
    /\ UNCHANGED <<clockVars, users_profile, merges, inflight, cacheVars, tool_call, turns, call, pre, pre_seen,
                   session, welcome_text, messages, llm_input, ai_msg, pending, tool_messages,
                   invocations, tools_run, rounds, ran, result>>

\* lines 140-141 and 158-160
UpdateVisitAndReturn(readOk, writeOk) ==
    /\ pc = "update_visit"
    /\ ReadOutcome(call.user_id, readOk)
    /\ Faulting(<<readOk, writeOk>>)
    /\ store' = UpdateLastVisit(call.user_id, readOk, writeOk)
    /\ writes_ok' = (writes_ok /\ writeOk)
    /\ result' = Returned(response_text)
    /\ last_ok' = [last_ok EXCEPT ![call.user_id] = now]
    /\ pc' = "done"
    /\ UNCHANGED <<now, ticks, users_profile, merges, inflight, cacheVars, tool_call, turns, call, pre, pre_seen,
                   session, welcome_text, messages, llm_input, ai_msg, pending, tool_messages,
                   invocations, tools_run, rounds, ran, response_text>>

\* the caller has the outcome; the next call may start
Finish ==
    /\ pc = "done"
    /\ pc' = "idle"
    /\ call' = NoCall
    /\ pre' = NoFile
    /\ pre_seen' = NoSeen
    /\ session' = NoFile
    /\ welcome_text' = ""
    /\ messages' = <<>>
    /\ llm_input' = <<>>
    /\ ai_msg' = NoReply
    /\ pending' = <<>>
    /\ tool_messages' = <<>>
    /\ invocations' = 0
    /\ tools_run' = 0
    /\ rounds' = 0
    /\ ran' = {}
    /\ response_text' = ""
    /\ writes_ok' = TRUE
    /\ result' = NoResult
    /\ tool_call' = NoToolCall
    /\ UNCHANGED <<clockVars, storeVars, cacheVars, turns>>

\* time passes between two calls; the clock starts with the first call
Tick(d) ==
    /\ pc = "idle"
    /\ turns > 0
    /\ ticks < MaxTicks
    /\ ticks' = ticks + 1
    /\ now' = now + d
    /\ last_ok' = last_ok
    /\ UNCHANGED <<storeVars, cacheVars, turnVars, tool_call>>

\* ------------------------------------------------------------------------
\* The orchestrator
\* ------------------------------------------------------------------------
TurnUsers == {"u1"}

\* what the index returns to a recommendation made inside a turn
TurnMetas == {m \in MetaSet : m.activity_kr = "walk"}
TurnMatches == SeqsUpTo(TurnMetas, MaxMatches)

InitCaches ==
    /\ recommended = [k \in CacheKeys |-> {}]
    /\ asked = [k \in CacheKeys |-> {}]
    /\ returned = [k \in CacheKeys |-> {}]
    /\ clients = "unattempted"
    /\ info_clients = "unset"
    /\ running = NoRunning

InitTurn ==
    /\ pc = "idle"
    /\ turns = 0
    /\ call = NoCall
    /\ pre = NoFile
    /\ pre_seen = NoSeen
    /\ session = NoFile
    /\ welcome_text = ""
    /\ messages = <<>>
    /\ llm_input = <<>>
    /\ ai_msg = NoReply
    /\ pending = <<>>
    /\ tool_messages = <<>>
    /\ invocations = 0
    /\ tools_run = 0
    /\ rounds = 0
    /\ ran = {}
    /\ response_text = ""
    /\ writes_ok = TRUE
    /\ result = NoResult

Init ==
    /\ now = 0
    /\ ticks = 0
    /\ last_ok = NoTurnYet
    /\ store = [u \in Users |-> NoFile]
    /\ users_profile = [u \in Users |-> <<>>]
    /\ merges = 0
    /\ faults = 0
    /\ inflight = NoWriters
    /\ InitCaches
    /\ InitTurn
    /\ tool_call = NoToolCall

Next ==
    \/ \E u \in TurnUsers, text \in Texts, mode \in Modes, r1 \in BOOLEAN, r2 \in BOOLEAN :
           Call(u, text, mode, r1, r2)
    \/ InfoFirstRaises
    \/ \E reply \in LLMReplies : InfoFirstInvoke(reply)
    \/ \E outcome \in InfoToolOutcomes : InfoToolStep(outcome)
    \/ InfoSecondRaises
    \/ \E reply \in LLMReplies : InfoSecondInvoke(reply)
    \/ EmpathyNodeRaises
    \/ \E reply \in LLMReplies : EmpathyNode(reply)
    \/ \E matches \in TurnMatches, initOk \in BOOLEAN :
           ToolsNodeRecommend(call.user_id, matches, initOk)
    \/ ToolsNodeUnknown
    \/ ToolsNodeRaises
    \/ \E r \in BOOLEAN, w \in BOOLEAN : AppendUser(r, w)
    \/ \E r \in BOOLEAN, w \in BOOLEAN : AppendAssistant(r, w)
    \/ \E r \in BOOLEAN, w \in BOOLEAN : UpdateVisitAndReturn(r, w)
    \/ Finish
    \/ \E d \in TickDeltas : Tick(d)

Spec == Init /\ [][Next]_vars

\* ------------------------------------------------------------------------
\* Turns of a user with a long stored history
\* ------------------------------------------------------------------------
MaxHistory == 10

\* the text of the i-th stored entry, different for every entry
EntryText(i) == "entry " \o ToString(i)

\* the history earlier turns have stored: messages of the user and of the
\* assistant in turn
StoredHistory(n) ==
    [i \in 1..n |-> MessageEntry(0, IF i % 2 = 1 THEN "user" ELSE "assistant", EntryText(i))]

StoredSession(n) ==
    IF n = 0 THEN NoFile
    ELSE [exists |-> TRUE, last_visit |-> IsoFormat(0), user_profile |-> DefaultProfile,
          conversation_history |-> StoredHistory(n)]

InitContext ==
    /\ now = 0
    /\ ticks = 0
    /\ last_ok = NoTurnYet
    /\ \E n \in 0..MaxHistory :
           store = [u \in Users |-> IF u = "u1" THEN StoredSession(n) ELSE NoFile]
    /\ users_profile = [u \in Users |-> <<>>]
    /\ merges = 0
    /\ faults = 0
    /\ inflight = NoWriters
    /\ InitCaches
    /\ InitTurn
    /\ tool_call = NoToolCall

NextContext ==
    \/ \E text \in Texts, mode \in Modes : Call("u1", text, mode, TRUE, TRUE)
    \/ \E reply \in LLMReplies : InfoFirstInvoke(reply)
    \/ \E outcome \in InfoToolOutcomes : InfoToolStep(outcome)
    \/ \E reply \in LLMReplies : InfoSecondInvoke(reply)
    \/ \E reply \in LLMReplies : EmpathyNode(reply)
    \/ \E matches \in TurnMatches : ToolsNodeRecommend(call.user_id, matches, TRUE)
    \/ ToolsNodeUnknown
    \/ AppendUser(TRUE, TRUE)
    \/ AppendAssistant(TRUE, TRUE)
    \/ UpdateVisitAndReturn(TRUE, TRUE)
    \/ Finish

SpecContext == InitContext /\ [][NextContext]_vars

\* ------------------------------------------------------------------------
\* The welcome-back policy on its own: the decision and the greeting applied
\* to stored sessions and clock readings drawn from bounded sets
\* ------------------------------------------------------------------------
WelcomeBase == 2 * MinutesPerDay

\* clock readings around the cooldown and the day boundaries, and before
\* the stored visit
WelcomeOffsets == {0 - MinutesPerDay - 1, 0 - MinutesPerDay, 0 - 1, 0, 1,
                   WELCOME_COOLDOWN_MINUTES - 1, WELCOME_COOLDOWN_MINUTES,
                   WELCOME_COOLDOWN_MINUTES + 1,
                   MinutesPerDay - 1, MinutesPerDay, MinutesPerDay + 1,
                   2 * MinutesPerDay - 1, 2 * MinutesPerDay, 2 * MinutesPerDay + 1,
                   3 * MinutesPerDay}

WelcomeVisits == {NullVisit, EmptyVisit, BadVisit, IsoFormat(WelcomeBase)}

WelcomeProfiles == {DefaultProfile,
                    [x \in {"name", "mobility", "emotion"} |-> IF x = "name" THEN "Kim" ELSE ""],
                    [x \in {"name", "A1"} |-> IF x = "A1" THEN "Lee" ELSE ""]}

WelcomeHistories == {<<>>, <<MessageEntry(WelcomeBase, "user", "bored")>>}

WelcomeSessions ==
    {[exists |-> TRUE, last_visit |-> v, user_profile |-> p, conversation_history |-> h] :
        v \in WelcomeVisits, p \in WelcomeProfiles, h \in WelcomeHistories}

\* _should_show_welcome(session, mode) on the stored session of u
ShouldShowWelcomeCall(u, mode) ==
    /\ tool_call' = [op |-> "_should_show_welcome", user_id |-> u, mode |-> mode,
                     show |-> ShouldShowWelcome(LoadSession(u, TRUE), mode, now)]
    /\ UNCHANGED <<clockVars, storeVars, cacheVars, turnVars>>

\* get_welcome_message(user_id), as the welcome endpoint and the turn call it
GetWelcomeMessageCall(u) ==
    /\ tool_call' = [op |-> "get_welcome_message", user_id |-> u,
                     text |-> GetWelcomeMessage(LoadSession(u, TRUE), now)]
    /\ UNCHANGED <<clockVars, storeVars, cacheVars, turnVars>>

InitWelcome ==
    /\ now \in {WelcomeBase + d : d \in WelcomeOffsets}
    /\ ticks = 0
    /\ last_ok = NoTurnYet
    /\ \E s \in WelcomeSessions : store = [u \in Users |-> IF u = "u1" THEN s ELSE NoFile]
    /\ users_profile = [u \in Users |-> <<>>]
    /\ merges = 0
    /\ faults = 0
    /\ inflight = NoWriters
    /\ InitCaches
    /\ InitTurn
    /\ tool_call = NoToolCall

NextWelcome ==
    \/ \E mode \in Modes : ShouldShowWelcomeCall("u1", mode)
    \/ GetWelcomeMessageCall("u1")

SpecWelcome == InitWelcome /\ [][NextWelcome]_vars

\* ------------------------------------------------------------------------
\* Profile normalization on its own: the raw profile of users.json merged
\* into the stored profile again and again (sync_session_profile)
\* ------------------------------------------------------------------------
MaxMerges == 2

\* every raw profile over the eight keys, each key absent, empty or set
RawProfiles ==
    UNION {{[k \in keys |-> IF k \in set THEN (IF k \in ExplicitKeys THEN "typed" ELSE "ticked")
                            ELSE ""] : set \in SUBSET keys} : keys \in SUBSET ProfileKeys}

CurrentProfiles ==
    [{"name", "mobility", "emotion"} -> {"", "old"}]
        \cup {[k \in ProfileKeys |-> "old"], [k \in {"name", "age", "mobility", "activity_range"} |-> ""]}

\* sync_session_profile: a non-empty raw profile is merged into the session
SyncSessionProfile(u) ==
    /\ merges < MaxMerges
    /\ users_profile[u] # <<>>
    /\ merges' = merges + 1
    /\ store' = UpdateUserProfile(u, users_profile[u], TRUE, TRUE)
    /\ tool_call' = [op |-> "update_user_profile", user_id |-> u,
                     before |-> store[u].user_profile,
                     after |-> store'[u].user_profile]
    /\ UNCHANGED <<clockVars, users_profile, faults, inflight, cacheVars, turnVars>>

InitProfile ==
    /\ now = 0
    /\ ticks = 0
    /\ last_ok = NoTurnYet
    /\ \E c \in CurrentProfiles :
           store = [u \in Users |-> IF u = "u1" THEN [NoFile EXCEPT !.exists = TRUE,
                                                                   !.user_profile = c]
                                    ELSE NoFile]
    /\ \E p \in RawProfiles : users_profile = [u \in Users |-> IF u = "u1" THEN p ELSE <<>>]
    /\ merges = 0
    /\ faults = 0
    /\ inflight = NoWriters
    /\ InitCaches
    /\ InitTurn
    /\ tool_call = NoToolCall

NextProfile == SyncSessionProfile("u1")

SpecProfile == InitProfile /\ [][NextProfile]_vars

\* ------------------------------------------------------------------------
\* The recommendation tool called directly, one call after the other
\* ------------------------------------------------------------------------
MaxToolCalls == 2
MaxCandidates == 3

\* the user_id argument: a user, or nothing
UserIds == {"u1", ""}

CandidateLists == SeqsUpTo(MetaSet, MaxCandidates)

\* recommend_activities_tool(user_emotion, mobility_status, user_id) with
\* the matches the index returns
RecommendCall(user_id, matches, initOk) ==
    /\ tools_run < MaxToolCalls
    /\ initOk \/ clients = "unattempted"
    /\ tools_run' = tools_run + 1
    /\ LET state == EnsureClients(clients, initOk)
           out == RecommendActivitiesTool(state, user_id, matches, recommended)
       IN  /\ clients' = state
           /\ recommended' = out.cache
           /\ asked' = asked
           /\ UNCHANGED <<info_clients, running>>
           /\ returned' = [returned EXCEPT ![CacheKey(user_id)] = @ \cup Range(out.labels)]
           /\ tool_call' = [op |-> "recommend_activities_tool", user_id |-> user_id,
                            raised |-> FALSE, text |-> out.text, labels |-> out.labels,
                            before |-> returned[CacheKey(user_id)],
                            cache_before |-> recommended,
                            candidates |-> {ActivityOf(matches[i]) : i \in 1..Len(matches)},
                            repeats |-> IF state = "ready"
                                        THEN {ActivityOf(matches[i]) : i \in 1..Len(matches)}
                                                 \cap recommended[CacheKey(user_id)]
                                        ELSE {}]
    /\ UNCHANGED <<clockVars, storeVars, pc, turns, call, pre, pre_seen, session, welcome_text,
                   messages, llm_input, ai_msg, pending, tool_messages, invocations,
                   rounds, ran, response_text, writes_ok, result>>

\* the embedding or the index query raises: the tool ends before the cache is read
RecommendCallRaises(user_id, initOk) ==
    /\ tools_run < MaxToolCalls
    /\ initOk
    /\ tools_run' = tools_run + 1
    /\ clients' = EnsureClients(clients, initOk)
    /\ clients' = "ready"
    /\ tool_call' = [op |-> "recommend_activities_tool", user_id |-> user_id,
                     raised |-> TRUE, text |-> "", labels |-> <<>>,
                     before |-> returned[CacheKey(user_id)],
                     cache_before |-> recommended, candidates |-> {}, repeats |-> {}]
    /\ UNCHANGED <<clockVars, storeVars, recommended, asked, returned, info_clients, running, pc, turns, call, pre, pre_seen, session,
                   welcome_text, messages, llm_input, ai_msg, pending, tool_messages,
                   invocations, rounds, ran, response_text, writes_ok, result>>

NextRecommend ==
    \/ \E user_id \in UserIds, matches \in CandidateLists, initOk \in BOOLEAN :
           RecommendCall(user_id, matches, initOk)
    \/ \E user_id \in UserIds : RecommendCallRaises(user_id, TRUE)

SpecRecommend == Init /\ [][NextRecommend]_vars

\* ------------------------------------------------------------------------
\* Turns of a user who comes back after an earlier turn
\* ------------------------------------------------------------------------

\* the session a successful turn at minute 0 left behind, or no session
VisitSessions == {NoFile, StoredSession(2)}

\* the user comes back at the end of the cooldown or one minute later
InitVisits ==
    /\ now \in {WELCOME_COOLDOWN_MINUTES, WELCOME_COOLDOWN_MINUTES + 1}
    /\ ticks = 0
    /\ \E s \in VisitSessions :
           /\ store = [u \in Users |-> IF u = "u1" THEN s ELSE NoFile]
           /\ last_ok = [u \in Users |-> IF u = "u1" /\ s.exists THEN 0 ELSE -1]
    /\ users_profile = [u \in Users |-> <<>>]
    /\ merges = 0
    /\ faults = 0
    /\ inflight = NoWriters
    /\ InitCaches
    /\ InitTurn
    /\ tool_call = NoToolCall

\* replies that ask for no tool
PlainReplies == {reply \in LLMReplies : reply.tool_calls = <<>>}

NextVisits ==
    \/ \E text \in Texts, mode \in Modes, r1 \in BOOLEAN, r2 \in BOOLEAN :
           Call("u1", text, mode, r1, r2)
    \/ InfoFirstRaises
    \/ \E reply \in PlainReplies : InfoFirstInvoke(reply)
    \/ EmpathyNodeRaises
    \/ \E reply \in PlainReplies : EmpathyNode(reply)
    \/ \E r \in BOOLEAN, w \in BOOLEAN : AppendUser(r, w)
    \/ \E r \in BOOLEAN, w \in BOOLEAN : AppendAssistant(r, w)
    \/ \E r \in BOOLEAN, w \in BOOLEAN : UpdateVisitAndReturn(r, w)
    \/ Finish
    \/ \E d \in TickDeltas : Tick(d)

SpecVisits == InitVisits /\ [][NextVisits]_vars

\* ------------------------------------------------------------------------
\* Recommendation calls with more candidates than one answer holds
\* ------------------------------------------------------------------------
\* the index also holds a fourth activity
BatchMetas == MetaSet \cup {[activity_kr |-> "tea", activity |-> ""]}

\* the short candidate lists, and those of four different activities
BatchLists ==
    CandidateLists
        \cup {s \in [1..(RecommendLimit + 1) -> BatchMetas] :
                  /\ \A i \in 1..(RecommendLimit + 1) : ActivityOf(s[i]) # ""
                  /\ \A i, j \in 1..(RecommendLimit + 1) :
                         i # j => ActivityOf(s[i]) # ActivityOf(s[j])}

NextRecommendBatch ==
    \/ /\ tools_run < MaxToolCalls
       /\ \E user_id \in UserIds, matches \in BatchLists, initOk \in BOOLEAN :
              RecommendCall(user_id, matches, initOk)
    \/ /\ tools_run < MaxToolCalls
       /\ \E user_id \in UserIds : RecommendCallRaises(user_id, TRUE)

SpecRecommendBatch == Init /\ [][NextRecommendBatch]_vars

\* ------------------------------------------------------------------------
\* The empathy-question tool and the two companion tools called directly
\* ------------------------------------------------------------------------
MaxQuestionMatches == 2

DepthFloor == 1
DepthCeiling == 3
BaseTopK == 3
QuestionLimit == 3
FallbackLimit == 3

NO_QUESTION_TEXT == "no fitting question"

\* the depth argument: below, inside and above the clamp
Depths == {0, 2, 5}

\* depth = max(1, min(depth, 3))
ClampDepth(depth) ==
    LET low == IF depth < DepthCeiling THEN depth ELSE DepthCeiling
    IN  IF low > DepthFloor THEN low ELSE DepthFloor

\* top_k of the index query
QuestionTopK(depth) == BaseTopK + ClampDepth(depth)

\* metadata of the question entries of the index, "" standing for an entry
\* without question_text
QuestionMetas == {[question_text |-> "q1"], [question_text |-> "q2"],
                  [question_text |-> "q3"], [question_text |-> "q4"],
                  [question_text |-> ""]}

Questions == {m.question_text : m \in QuestionMetas} \ {""}

\* the rankings the index can hold for one query: every short one, the
\* ones with four different questions, and longer ones that start with four
\* copies of one entry, so that the number of candidates requested decides
\* what is found
QuestionRankings ==
    SeqsUpTo(QuestionMetas, MaxQuestionMatches)
        \cup {s \in [1..4 -> QuestionMetas \ {[question_text |-> ""]}] :
                  \A i, j \in 1..4 : i # j => s[i] # s[j]}
        \cup {<<m, m, m, m>> \o s : m \in QuestionMetas, s \in SeqsUpTo(QuestionMetas, 1)}

\* index.query(top_k=...)["matches"]: the first top_k entries of the ranking
IndexQuery(ranking, top_k) ==
    IF Len(ranking) <= top_k THEN ranking ELSE SubSeq(ranking, 1, top_k)

\* the loop over res["matches"]: the question texts picked, in order
RECURSIVE QuestionScan(_, _, _, _)
QuestionScan(matches, i, already, picked) ==
    IF i > Len(matches) \/ Len(picked) >= QuestionLimit THEN picked
    ELSE LET q_text == matches[i].question_text
         IN  IF q_text = "" \/ q_text \in already \/ q_text \in Range(picked)
             THEN QuestionScan(matches, i + 1, already, picked)
             ELSE QuestionScan(matches, i + 1, already, Append(picked, q_text))

\* res["matches"][:3], the texts as the fallback renders them
RawTop(matches) ==
    LET n == IF Len(matches) <= FallbackLimit THEN Len(matches) ELSE FallbackLimit
    IN  [i \in 1..n |-> matches[i].question_text]

\* f"- {q_text} (...)", a missing text rendered as None
QuestionLine(q_text) == "- " \o (IF q_text = "" THEN "None" ELSE q_text) \o " (intent)"

\* the texts of this call are not recorded
QuestionRecordNothing(already, picked) == already

\* the seen-set is replaced by the texts of this call
QuestionRecordReplaces(already, picked) == Range(picked)

\* already.update(seen_local)
QuestionRecord(already, picked) == already \cup Range(picked)

\* search_empathy_questions_tool once the clients are known: the returned
\* text, the question texts it carries and the new cache
SearchEmpathyQuestionsTool(state, depth, user_id, ranking, cache) ==
    IF state # "ready"
    THEN [text |-> DB_ERROR_TEXT, questions |-> <<>>, fallback |-> FALSE,
          top_k |-> 0, matches |-> <<>>, cache |-> cache]
    ELSE LET top_k == QuestionTopK(depth)
             matches == IndexQuery(ranking, top_k)
             uid == CacheKey(user_id)
             picked == QuestionScan(matches, 1, cache[uid], <<>>)
             fallback == picked = <<>> /\ matches # <<>>
             questions == IF fallback THEN RawTop(matches) ELSE picked
         IN  [text |-> IF questions = <<>> THEN NO_QUESTION_TEXT
                       ELSE JoinLines([i \in 1..Len(questions) |-> QuestionLine(questions[i])]),
              questions |-> questions,
              fallback |-> fallback,
              top_k |-> top_k,
              matches |-> matches,
              cache |-> [cache EXCEPT ![uid] = QuestionRecord(@, picked)]]

\* search_empathy_questions_tool(context, depth, user_id, recent_messages)
\* with the ranking the index holds for the query
QuestionCall(depth, user_id, ranking, initOk) ==
    /\ tools_run < MaxToolCalls
    /\ initOk \/ clients = "unattempted"
    /\ tools_run' = tools_run + 1
    /\ LET state == EnsureClients(clients, initOk)
           out == SearchEmpathyQuestionsTool(state, depth, user_id, ranking, asked)
       IN  /\ clients' = state
           /\ asked' = out.cache
           /\ tool_call' = [op |-> "search_empathy_questions_tool", user_id |-> user_id,
                            raised |-> FALSE, ready |-> state = "ready",
                            depth |-> depth, top_k |-> out.top_k,
                            candidates |-> {out.matches[i].question_text :
                                                i \in 1..Len(out.matches)},
                            count |-> Len(out.matches),
                            raw |-> RawTop(out.matches),
                            text |-> out.text, questions |-> out.questions,
                            fallback |-> out.fallback,
                            before |-> asked[CacheKey(user_id)]]
    /\ UNCHANGED <<clockVars, storeVars, recommended, returned, info_clients, running, pc, turns, call, pre, pre_seen,
                   session, welcome_text, messages, llm_input, ai_msg, pending,
                   tool_messages, invocations, rounds, ran, response_text, writes_ok,
                   result>>

\* the embedding or the index query raises: the tool ends before the cache is read
QuestionCallRaises(user_id, initOk) ==
    /\ tools_run < MaxToolCalls
    /\ initOk
    /\ tools_run' = tools_run + 1
    /\ clients' = EnsureClients(clients, initOk)
    /\ clients' = "ready"
    /\ tool_call' = [op |-> "search_empathy_questions_tool", user_id |-> user_id,
                     raised |-> TRUE, ready |-> TRUE, depth |-> 0, top_k |-> 0,
                     candidates |-> {}, count |-> 0, raw |-> <<>>, text |-> "",
                     questions |-> <<>>, fallback |-> FALSE,
                     before |-> asked[CacheKey(user_id)]]
    /\ UNCHANGED <<clockVars, storeVars, recommended, asked, returned, info_clients, running, pc, turns, call, pre, pre_seen,
                   session, welcome_text, messages, llm_input, ai_msg, pending,
                   tool_messages, invocations, rounds, ran, response_text, writes_ok,
                   result>>

NextCompanionTools ==
    \/ /\ tools_run < MaxToolCalls
       /\ \E depth \in Depths, user_id \in UserIds, ranking \in QuestionRankings,
             initOk \in BOOLEAN :
              QuestionCall(depth, user_id, ranking, initOk)
    \/ /\ tools_run < MaxToolCalls
       /\ \E user_id \in UserIds : QuestionCallRaises(user_id, TRUE)
    \/ /\ tools_run < MaxToolCalls
       /\ \E user_id \in UserIds, matches \in CandidateLists, initOk \in BOOLEAN :
              RecommendCall(user_id, matches, initOk)
    \/ /\ tools_run < MaxToolCalls
       /\ \E user_id \in UserIds : RecommendCallRaises(user_id, TRUE)

SpecCompanionTools == Init /\ [][NextCompanionTools]_vars

\* ------------------------------------------------------------------------
\* Companion tools run by two threads for the same user
\* ------------------------------------------------------------------------
MaxThreadCalls == 2

RaceUser == "u1"

\* what the index returns to the calls of the threads
RaceMatches == {<<[activity_kr |-> "walk", activity |-> "stroll"]>>,
                <<[activity_kr |-> "music", activity |-> ""]>>,
                <<[activity_kr |-> "walk", activity |-> "stroll"],
                  [activity_kr |-> "music", activity |-> ""]>>}

RaceRankings == {<<[question_text |-> "q1"]>>, <<[question_text |-> "q2"]>>,
                 <<[question_text |-> "q1"], [question_text |-> "q2"]>>}

\* the seen-set a tool works on
SeenSet(op) == IF op = "recommend_activities_tool" THEN recommended ELSE asked

\* labels or question texts that calls in progress have picked and not yet recorded
HeldByOthers(t, op) ==
    UNION {Range(running[o].picked) :
               o \in {o \in Threads \ {t} : running[o].stage = "filtered" /\ running[o].op = op}}

\* labels every finished call of the tool has picked for the user
Handed(op) ==
    IF op = "recommend_activities_tool" THEN returned[RaceUser]
    ELSE UNION {Range(running[o].picked) :
                    o \in {o \in Threads : running[o].stage = "done" /\ running[o].op = op}}
             \cup asked[RaceUser]

\* lines 127-139 / 208-222: the thread reads the shared set and runs the
\* loop over the matches; nothing is recorded yet
ToolFilter(t, op, matches) ==
    /\ running[t].stage \in {"idle", "done"}
    /\ running[t].calls < MaxThreadCalls
    /\ clients' = EnsureClients(clients, TRUE)
    /\ clients' = "ready"
    /\ LET picked == IF op = "recommend_activities_tool"
                     THEN RecommendScan(matches, 1, recommended[RaceUser], <<>>)
                     ELSE QuestionScan(matches, 1, asked[RaceUser], <<>>)
       IN  running' = [running EXCEPT ![t] =
                          [op |-> op, stage |-> "filtered", picked |-> picked,
                           dup |-> Range(picked) \cap (HeldByOthers(t, op) \cup Handed(op)),
                           overlapped |-> \E o \in Threads \ {t} :
                                              running[o].stage = "filtered",
                           calls |-> @.calls + 1]]
    /\ UNCHANGED <<clockVars, storeVars, recommended, asked, returned, info_clients,
                   turnVars, tool_call>>

\* the update is skipped
ToolRecordNothing(t) ==
    /\ running[t].stage = "filtered"
    /\ running' = [o \in Threads |->
                      IF o = t THEN [running[t] EXCEPT !.stage = "done"]
                      ELSE running[o]]
    /\ UNCHANGED <<clockVars, storeVars, recommended, asked, returned, clients, info_clients,
                   turnVars, tool_call>>

\* the set is replaced by the set read at the start of the call plus the
\* labels of this call
ToolRecordOverwrites(t) ==
    /\ running[t].stage = "filtered"
    /\ LET op == running[t].op
           picked == Range(running[t].picked)
       IN  /\ recommended' = IF op = "recommend_activities_tool"
                             THEN [recommended EXCEPT ![RaceUser] = picked]
                             ELSE recommended
           /\ asked' = IF op = "recommend_activities_tool" THEN asked
                       ELSE [asked EXCEPT ![RaceUser] = picked]
           /\ returned' = IF op = "recommend_activities_tool"
                          THEN [returned EXCEPT ![RaceUser] = @ \cup picked]
                          ELSE returned
    /\ running' = [o \in Threads |->
                      IF o = t THEN [running[t] EXCEPT !.stage = "done"]
                      ELSE running[o]]
    /\ UNCHANGED <<clockVars, storeVars, clients, info_clients, turnVars, tool_call>>

\* lines 141-146 / 231-232: already.update(seen_local) on the shared set
\* object, then the answer is returned
ToolRecord(t) ==
    /\ running[t].stage = "filtered"
    /\ LET op == running[t].op
           picked == Range(running[t].picked)
       IN  /\ recommended' = IF op = "recommend_activities_tool"
                             THEN [recommended EXCEPT ![RaceUser] = @ \cup picked]
                             ELSE recommended
           /\ asked' = IF op = "recommend_activities_tool" THEN asked
                       ELSE [asked EXCEPT ![RaceUser] = @ \cup picked]
           /\ returned' = IF op = "recommend_activities_tool"
                          THEN [returned EXCEPT ![RaceUser] = @ \cup picked]
                          ELSE returned
    /\ running' = [o \in Threads |->
                      IF o = t
                      THEN [running[t] EXCEPT
                               !.stage = "done",
                               !.overlapped = @ \/ \E x \in Threads \ {t} :
                                                       running[x].stage = "filtered"]
                      ELSE IF running[o].stage = "filtered"
                      THEN [running[o] EXCEPT !.overlapped = TRUE]
                      ELSE running[o]]
    /\ UNCHANGED <<clockVars, storeVars, clients, info_clients, turnVars, tool_call>>

NextRace ==
    \/ \E t \in Threads, matches \in RaceMatches :
           ToolFilter(t, "recommend_activities_tool", matches)
    \/ \E t \in Threads, ranking \in RaceRankings :
           ToolFilter(t, "search_empathy_questions_tool", ranking)
    \/ \E t \in Threads : ToolRecord(t)

SpecRace == Init /\ [][NextRace]_vars

\* ------------------------------------------------------------------------
\* Companion tools called for several users and for no user
\* ------------------------------------------------------------------------

\* the user_id argument: one of two users, or nothing
KeyedUserIds == Users \cup {""}

NextKeys ==
    \/ /\ tools_run < MaxToolCalls
       /\ \E user_id \in KeyedUserIds, matches \in RaceMatches :
              RecommendCall(user_id, matches, TRUE)
    \/ /\ tools_run < MaxToolCalls
       /\ \E user_id \in KeyedUserIds, ranking \in RaceRankings :
              QuestionCall(DepthFloor, user_id, ranking, TRUE)

SpecKeys == Init /\ [][NextKeys]_vars

\* ------------------------------------------------------------------------
\* Region matching and the region-scoped facility search
\* ------------------------------------------------------------------------
MaxRegions == 3

FacilityMatchLimit == 100

\* sorted(list(set(all_regions))) of the facilities region file
ALL_REGIONS == <<"Seoul Gangnam", "Seoul Jongno", "Suwon">>

\* region names a caller passes: a prefix of two entries, an exact entry,
\* a misspelt entry and a name the file does not know
RegionInputs == {"Seoul", "Suwon", "Suwn", "Busan"}

\* the region argument; "" stands for None
RegionArgs == {"", "Suwn", "Busan"}

\* the regions argument: None, or a list
NoRegions == [given |-> FALSE, list |-> <<>>]
RegionsArgs == {NoRegions} \cup {[given |-> TRUE, list |-> l] : l \in SeqsUpTo(RegionInputs, MaxRegions)}

\* a in b
Contains(a, b) == \E i \in 0..(Len(b) - Len(a)) : SubSeq(b, i + 1, i + Len(a)) = a

\* difflib's ranking of the region names of the files at cutoff 0.6, best first
SimilarRegions(word) ==
    IF word \in {"Suwn", "Suwon"} THEN <<"Suwon">>
    ELSE IF word = "Seoul" THEN <<"Seoul Mapo", "Seoul Nowon">>
    ELSE IF word = "Seoul Jongno office" THEN <<"Seoul Jongno">>
    ELSE IF word = "Busan" THEN <<"Busan Jung">>
    ELSE <<>>

GetCloseMatches(word, possibilities, n) ==
    LET close == SelectSeq(SimilarRegions(word), LAMBDA r : r \in Range(possibilities))
    IN  SubSeq(close, 1, IF Len(close) < n THEN Len(close) ELSE n)

\* the two-way containment pass, which returns as soon as n regions matched
RECURSIVE ContainmentPass(_, _, _, _, _)
ContainmentPass(user_input, region_list, n, i, matched) ==
    IF i > Len(region_list) THEN matched
    ELSE LET region == region_list[i]
         IN  IF Contains(user_input, region) \/ Contains(region, user_input)
             THEN IF Len(matched) + 1 >= n
                  THEN Append(matched, region)
                  ELSE ContainmentPass(user_input, region_list, n, i + 1, Append(matched, region))
             ELSE ContainmentPass(user_input, region_list, n, i + 1, matched)

\* the similarity pass is run after the containment pass whatever it matched
FindMatchingRegionsBothPasses(user_input, region_list, n) ==
    ContainmentPass(user_input, region_list, n, 1, <<>>) \o GetCloseMatches(user_input, region_list, n)

\* find_matching_regions; <<>> stands for None
FindMatchingRegions(user_input, region_list, n) ==
    LET matched == ContainmentPass(user_input, region_list, n, 1, <<>>)
    IN  IF matched # <<>> THEN matched ELSE GetCloseMatches(user_input, region_list, n)

NoFilter == [kind |-> "none", regions |-> <<>>]

\* filter_dict of one sub-search
FacilityFilter(rgn) ==
    IF rgn = "" THEN NoFilter
    ELSE LET matched == FindMatchingRegions(rgn, ALL_REGIONS, FacilityMatchLimit)
         IN  IF matched = <<>> THEN NoFilter
             ELSE IF Len(matched) = 1 THEN [kind |-> "eq", regions |-> matched]
             ELSE [kind |-> "in", regions |-> matched]

\* a document of the index: its text and the sub-search that fetched it
Doc(content, origin) == [page_content |-> content, origin |-> origin]

DocStarts == {0, 1}

\* the texts similarity_search(query, k, filter) may hand back: at most k of
\* them, possibly the same text twice
SubResults(k) ==
    {[j \in 1..c |-> o + j] : o \in DocStarts, c \in {c \in {0, 1, k} : c <= k}}
        \cup (IF k >= 2 THEN {<<1, 1>>} ELSE {})

\* a sub-search returns documents or raises
SubOutcomes(k) ==
    {[ok |-> TRUE, texts |-> d] : d \in SubResults(k)} \cup {[ok |-> FALSE, texts |-> <<>>]}

\* the loop over regions: every sub-search is asked for k results, a raising
\* one is skipped
RECURSIVE FacilityLoop(_, _, _, _, _, _)
FacilityLoop(regions, k, outcomes, i, searches, results_list) ==
    IF i > Len(regions) THEN [searches |-> searches, results_list |-> results_list]
    ELSE LET search == [region |-> regions[i], k |-> k, filter |-> FacilityFilter(regions[i]),
                        ok |-> outcomes[i].ok]
             results == [j \in 1..Len(outcomes[i].texts) |-> Doc(outcomes[i].texts[j], i)]
         IN  FacilityLoop(regions, k, outcomes, i + 1, Append(searches, search),
                          IF outcomes[i].ok THEN results_list \o results ELSE results_list)

\* the merge: a document is kept when its text was not seen before
RECURSIVE UniqueResults(_, _, _, _)
UniqueResults(results_list, i, unique_results, seen_content) ==
    IF i > Len(results_list) THEN unique_results
    ELSE LET doc == results_list[i]
         IN  IF doc.page_content \notin seen_content
             THEN UniqueResults(results_list, i + 1, Append(unique_results, doc),
                                seen_content \cup {doc.page_content})
             ELSE UniqueResults(results_list, i + 1, unique_results, seen_content)

\* regions the loop runs over: [region] when regions is None
EffectiveRegions(region, regions) == IF regions.given THEN regions.list ELSE <<region>>

\* the sub-search outcomes a call can meet
FacilityOutcomes(region, regions) ==
    LET list == EffectiveRegions(region, regions)
        n == Len(list)
    IN  IF n = 0 THEN {<<>>}
        ELSE [1..n -> SubOutcomes(FacilityBudget \div n)]

\* search_funeral_facilities(query, region, regions)
SearchFuneralFacilities(region, regions, ready, outcomes) ==
    LET list == EffectiveRegions(region, regions)
        blank == [op |-> "search_funeral_facilities", region |-> region, regions |-> regions,
                  status |-> "db_error", text |-> DB_ERROR_TEXT, list |-> <<>>, k |-> 0,
                  searches |-> <<>>, results_list |-> <<>>, output |-> <<>>]
    IN  IF ~ready THEN blank
        ELSE IF Len(list) = 0
        THEN [blank EXCEPT !.status = "raised", !.text = "ZeroDivisionError"]
        ELSE LET k == FacilityBudget \div Len(list)
                 loop == FacilityLoop(list, k, outcomes, 1, <<>>, <<>>)
             IN  [blank EXCEPT !.status = "returned", !.text = "", !.list = list, !.k = k,
                               !.searches = loop.searches,
                               !.results_list = loop.results_list,
                               !.output = UniqueResults(loop.results_list, 1, <<>>, {})]

\* one call of the tool with the backend reachable
FacilitySearchCall ==
    /\ tool_call = NoToolCall
    /\ \E region \in RegionArgs, regions \in RegionsArgs :
           \E outcomes \in FacilityOutcomes(region, regions) :
               tool_call' = SearchFuneralFacilities(region, regions, TRUE, outcomes)
    /\ UNCHANGED <<clockVars, storeVars, cacheVars, turnVars>>

\* _init_clients left the index unset: the tool answers with the sentinel
FacilitySearchUnavailable ==
    /\ tool_call = NoToolCall
    /\ \E region \in RegionArgs, regions \in RegionsArgs :
           tool_call' = SearchFuneralFacilities(region, regions, FALSE, <<>>)
    /\ UNCHANGED <<clockVars, storeVars, cacheVars, turnVars>>

NextFacilities ==
    \/ FacilitySearchCall
    \/ FacilitySearchUnavailable

SpecFacilities == Init /\ [][NextFacilities]_vars

\* ------------------------------------------------------------------------
\* The ordinance searches
\* ------------------------------------------------------------------------
MaxOrdinanceCalls == 2

OrdinanceK == 3

\* region_list_json of the ordinance region file
PUBLIC_FUNERAL_ORDINANCE == <<"Seoul Gangnam", "Seoul Jongno", "Seoul Mapo", "Seoul Nowon", "Suwon">>
CREMATION_DETAIL == <<"Seoul Gangnam", "Suwon">>
CREMATION_ETCETERA == <<"Seoul Jongno", "Busan Jung">>

OrdinanceTools == {"search_public_funeral_ordinance", "search_cremation_subsidy_ordinance"}

\* the type constraint each tool starts its filter with
OrdinanceType(name) ==
    IF name = "search_public_funeral_ordinance"
    THEN "Public_Funeral_Ordinance" ELSE "Cremation_Subsidy_Ordinance"

\* the region list each tool matches against
OrdinanceRegionList(name) ==
    IF name = "search_public_funeral_ordinance"
    THEN PUBLIC_FUNERAL_ORDINANCE ELSE CREMATION_DETAIL \o CREMATION_ETCETERA

\* the region argument, "" standing for None: a prefix of several entries,
\* an exact entry, a longer text holding an entry, a misspelt entry and a
\* name the file does not know
OrdinanceRegionArgs == {"", "Seoul", "Suwon", "Seoul Jongno office", "Suwn", "Daegu"}

\* the region clause is an "in" clause whatever the number of matches
OrdinanceFilterAlwaysIn(name, region) ==
    LET matched == IF region = "" THEN <<>>
                   ELSE FindMatchingRegions(region, OrdinanceRegionList(name), OrdinanceK)
    IN  [type |-> OrdinanceType(name),
         kind |-> IF matched = <<>> THEN "none" ELSE "in",
         regions |-> matched]

\* filter_dict of the search
OrdinanceFilter(name, region) ==
    LET matched == IF region = "" THEN <<>>
                   ELSE FindMatchingRegions(region, OrdinanceRegionList(name), OrdinanceK)
    IN  [type |-> OrdinanceType(name),
         kind |-> IF matched = <<>> THEN "none"
                  ELSE IF Len(matched) = 1 THEN "eq" ELSE "in",
         regions |-> matched]

\* search_public_funeral_ordinance / search_cremation_subsidy_ordinance
\* (query, region): the sentinel without clients, else one similarity search
\* whose documents are returned as they come and whose fault propagates
SearchOrdinance(name, region, ready, outcome) ==
    LET blank == [op |-> name, region |-> region, status |-> "db_error",
                  text |-> DB_ERROR_TEXT, searched |-> FALSE, k |-> 0,
                  filter |-> [type |-> "", kind |-> "none", regions |-> <<>>],
                  output |-> <<>>]
    IN  IF ~ready THEN blank
        ELSE [blank EXCEPT !.status = IF outcome.ok THEN "returned" ELSE "raised",
                           !.text = IF outcome.ok THEN "" ELSE "search failed",
                           !.searched = TRUE,
                           !.k = OrdinanceK,
                           !.filter = OrdinanceFilter(name, region),
                           !.output = outcome.texts]

\* one call of an ordinance tool with the backend reachable
OrdinanceSearchCall ==
    /\ tools_run < MaxOrdinanceCalls
    /\ tools_run' = tools_run + 1
    /\ \E name \in OrdinanceTools, region \in OrdinanceRegionArgs,
          outcome \in SubOutcomes(OrdinanceK) :
           tool_call' = SearchOrdinance(name, region, TRUE, outcome)
    /\ UNCHANGED <<clockVars, storeVars, cacheVars, pc, turns, call, pre, pre_seen, session,
                   welcome_text, messages, llm_input, ai_msg, pending, tool_messages,
                   invocations, rounds, ran, response_text, writes_ok, result>>

\* _init_clients left the index unset: the tool answers with the sentinel
OrdinanceSearchUnavailable ==
    /\ tools_run < MaxOrdinanceCalls
    /\ tools_run' = tools_run + 1
    /\ \E name \in OrdinanceTools, region \in OrdinanceRegionArgs :
           tool_call' = SearchOrdinance(name, region, FALSE, [ok |-> FALSE, texts |-> <<>>])
    /\ UNCHANGED <<clockVars, storeVars, cacheVars, pc, turns, call, pre, pre_seen, session,
                   welcome_text, messages, llm_input, ai_msg, pending, tool_messages,
                   invocations, rounds, ran, response_text, writes_ok, result>>

NextOrdinance ==
    \/ OrdinanceSearchCall
    \/ OrdinanceSearchUnavailable

SpecOrdinance == Init /\ [][NextOrdinance]_vars

\* ------------------------------------------------------------------------
\* The compiled graph run for either persona
\* ------------------------------------------------------------------------

\* the path map given to add_conditional_edges for each persona; the node
\* "info_tools" is the position "info_tools_node" here
EdgeMap(node) ==
    IF node = "empathy_agent"
    THEN [k \in {"tools", "END"} |-> IF k = "tools" THEN "tools" ELSE "END"]
    ELSE [k \in {"info_tools", "END"} |-> IF k = "info_tools" THEN "info_tools_node" ELSE "END"]

\* self.app.stream(inputs): the entry point routes on current_mode
GraphStream(mode, text) ==
    /\ pc = "idle"
    /\ turns < MaxTurns
    /\ call' = [user_id |-> "u1", text |-> text, mode |-> mode]
    /\ messages' = <<HumanMessage(text)>>
    /\ pc' = RouteMode(mode)
    /\ turns' = turns + 1
    /\ pre' = store["u1"]
    /\ pre_seen' = [recommended |-> recommended, asked |-> asked]
    /\ UNCHANGED <<clockVars, storeVars, cacheVars, tool_call, session, welcome_text, llm_input,
                   ai_msg, pending, tool_messages, invocations, tools_run, rounds, ran,
                   response_text, writes_ok, result>>

\* info_node returns a reply and _should_continue picks a key of the path
\* map of info_agent; a key the map does not hold is a KeyError of the
\* graph library, which ends the run
InfoNode(reply) ==
    /\ pc = "info_agent"
    /\ llm_input' = <<SystemMessage(INFO_SYSTEM_PROMPT)>> \o messages
    /\ invocations' = invocations + 1
    /\ ran' = ran \cup {"info_agent"}
    /\ ai_msg' = reply
    /\ messages' = Append(messages, AIMessage(reply))
    /\ response_text' = IF reply.tool_calls = <<>> THEN reply.content ELSE response_text
    /\ pending' = reply.tool_calls
    /\ LET key == ShouldContinue(reply)
           map == EdgeMap("info_agent")
       IN  IF key \in DOMAIN map
           THEN /\ pc' = IF map[key] = "END" THEN "append_user" ELSE map[key]
                /\ result' = result
           ELSE /\ pc' = "done"
                /\ result' = Raised("KeyError")
    /\ UNCHANGED <<clockVars, storeVars, cacheVars, tool_call, turns, call, pre, pre_seen, session,
                   welcome_text, tool_messages, tools_run, rounds, writes_ok>>

\* END: the stream is exhausted and the caller holds the last plain reply
GraphEnd ==
    /\ pc = "append_user"
    /\ pc' = "done"
    /\ result' = Returned(response_text)
    /\ UNCHANGED <<clockVars, storeVars, cacheVars, tool_call, turns, call, pre, pre_seen, session,
                   welcome_text, messages, llm_input, ai_msg, pending, tool_messages,
                   invocations, tools_run, rounds, ran, response_text, writes_ok>>

NextGraph ==
    \/ \E mode \in Modes \cup {MISSING}, text \in Texts : GraphStream(mode, text)
    \/ \E reply \in LLMReplies : EmpathyNode(reply)
    \/ \E matches \in TurnMatches, initOk \in BOOLEAN :
           ToolsNodeRecommend(call.user_id, matches, initOk)
    \/ ToolsNodeUnknown
    \/ \E reply \in LLMReplies : InfoNode(reply)
    \/ GraphEnd
    \/ Finish

SpecGraph == Init /\ [][NextGraph]_vars

\* ------------------------------------------------------------------------
\* Client initialisation across tool calls
\* ------------------------------------------------------------------------

\* _init_clients: nothing to do once index and embeddings are set; otherwise
\* one attempt, which leaves every client None again when it fails or when
\* no key is configured ("failed" is "unset" after such an attempt)
InitClients(state, initOk) ==
    IF state = "ready" THEN state
    ELSE IF initOk THEN "ready" ELSE "failed"

LegacyTools == {"search_digital_legacy", "search_legacy"}

LegacyK == 5

\* search_digital_legacy / search_legacy (query): the sentinel without
\* clients, else one similarity search whose fault propagates
SearchLegacy(name, ready, outcome) ==
    [op |-> name, region |-> "",
     status |-> IF ~ready THEN "db_error" ELSE IF outcome.ok THEN "returned" ELSE "raised",
     text |-> IF ~ready THEN DB_ERROR_TEXT ELSE IF outcome.ok THEN "" ELSE "search failed",
     searched |-> ready,
     k |-> IF ready THEN LegacyK ELSE 0,
     filter |-> [type |-> "", kind |-> "none", regions |-> <<>>],
     output |-> IF ready THEN outcome.texts ELSE <<>>]

\* what the one similarity search of a call does
ClientOutcomes == {[ok |-> TRUE, texts |-> <<1>>], [ok |-> FALSE, texts |-> <<>>]}

\* one call of an information tool: _init_clients first, then the tool body;
\* initOk tells whether an initialisation attempted now succeeds
InfoToolCall(name, initOk, outcome) ==
    /\ tools_run < MaxToolCalls
    /\ tools_run' = tools_run + 1
    /\ LET state == InitClients(info_clients, initOk)
           out == IF name \in LegacyTools
                  THEN SearchLegacy(name, state = "ready", outcome)
                  ELSE SearchOrdinance(name, "Suwon", state = "ready", outcome)
       IN  /\ info_clients' = state
           /\ tool_call' = [op |-> name, clients_before |-> info_clients,
                            init_ok |-> initOk, raised |-> out.status = "raised",
                            text |-> out.text, out |-> out]
    /\ UNCHANGED <<clockVars, storeVars, recommended, asked, returned, clients, running, pc,
                   turns, call, pre, pre_seen, session, welcome_text, messages, llm_input,
                   ai_msg, pending, tool_messages, invocations, rounds, ran, response_text,
                   writes_ok, result>>

NextClients ==
    \/ /\ tools_run < MaxToolCalls
       /\ \E user_id \in UserIds, matches \in TurnMatches, initOk \in BOOLEAN :
              RecommendCall(user_id, matches, initOk)
    \/ /\ tools_run < MaxToolCalls
       /\ \E user_id \in UserIds : RecommendCallRaises(user_id, TRUE)
    \/ /\ tools_run < MaxToolCalls
       /\ \E user_id \in UserIds, ranking \in RaceRankings, initOk \in BOOLEAN :
              QuestionCall(DepthFloor, user_id, ranking, initOk)
    \/ /\ tools_run < MaxToolCalls
       /\ \E user_id \in UserIds : QuestionCallRaises(user_id, TRUE)
    \/ /\ tools_run < MaxToolCalls
       /\ \E name \in OrdinanceTools \cup LegacyTools, initOk \in BOOLEAN,
             outcome \in ClientOutcomes :
              InfoToolCall(name, initOk, outcome)

SpecClients == Init /\ [][NextClients]_vars

\* ------------------------------------------------------------------------
\* Info-mode turns with several tool calls in one reply
\* ------------------------------------------------------------------------
MaxInfoCalls == 2

\* tool names the information persona asks for: one of TOOLS_INFO, one that
\* does not exist
InfoRequestedNames == {"search_legacy", "missing_tool"}

InfoToolCallLists ==
    {[i \in 1..Len(names) |-> [name |-> names[i], id |-> CallId(i)]] :
        names \in SeqsUpTo(InfoRequestedNames, MaxInfoCalls)}

InfoReplies == [content : ReplyTexts, tool_calls : InfoToolCallLists]

NextInfoFlow ==
    \/ \E text \in Texts, r1 \in BOOLEAN : Call("u1", text, "info", r1, TRUE)
    \/ InfoFirstRaises
    \/ \E reply \in InfoReplies : InfoFirstInvoke(reply)
    \/ \E outcome \in InfoToolOutcomes : InfoToolStep(outcome)
    \/ InfoSecondRaises
    \/ \E reply \in InfoReplies : InfoSecondInvoke(reply)
    \/ \E r \in BOOLEAN, w \in BOOLEAN : AppendUser(r, w)
    \/ \E r \in BOOLEAN, w \in BOOLEAN : AppendAssistant(r, w)
    \/ \E r \in BOOLEAN, w \in BOOLEAN : UpdateVisitAndReturn(r, w)
    \/ Finish

SpecInfoFlow == Init /\ [][NextInfoFlow]_vars

\* ------------------------------------------------------------------------
\* The session store called directly: load, then save
\* ------------------------------------------------------------------------
MaxWrites == 3

StoreUser == "u1"

WriterOps == {"load_session", "add_message", "update_last_visit", "update_user_profile"}

\* what each writer appends and merges
WriterText(w) == "from " \o w
WriterProfile(w) == IF w = "w1" THEN [A2 |-> "ticked"] ELSE [B1 |-> "ticked"]

\* the record an operation builds from the session it loaded
\* (lines 85-90, 96 and 102)
WriterEffect(w, op, s, t) ==
    IF op = "add_message"
    THEN [s EXCEPT !.conversation_history = Append(@, MessageEntry(t, "user", WriterText(w)))]
    ELSE IF op = "update_last_visit"
    THEN [s EXCEPT !.last_visit = IsoFormat(t)]
    ELSE [s EXCEPT !.user_profile = NormalizeProfile(WriterProfile(w), @)]

\* first half of an operation: session = self.load_session(user_id);
\* load_session called on its own ends here
WriterLoad(w, op, readOk) ==
    /\ inflight[w].stage # "loaded"
    /\ inflight[w].done < MaxWrites
    /\ ReadOutcome(StoreUser, readOk)
    /\ Faulting(<<readOk>>)
    /\ inflight' = [inflight EXCEPT ![w] =
           [@ EXCEPT !.op = op,
                     !.stage = IF op = "load_session" THEN "saved" ELSE "loaded",
                     !.snapshot = LoadSession(StoreUser, readOk),
                     !.stale = FALSE,
                     !.wrote = FALSE,
                     !.done = IF op = "load_session" THEN @ + 1 ELSE @]]
    /\ UNCHANGED <<clockVars, store, users_profile, merges, cacheVars, turnVars, tool_call>>

\* the save applies the operation to the record stored now
WriterSaveFresh(w, writeOk) ==
    /\ inflight[w].stage = "loaded"
    /\ Faulting(<<writeOk>>)
    /\ store' = SaveSession(StoreUser,
                            WriterEffect(w, inflight[w].op, store[StoreUser], now), writeOk)
    /\ inflight' = [x \in Writers |->
           IF x = w
           THEN [inflight[w] EXCEPT !.stage = "saved", !.wrote = writeOk, !.done = @ + 1,
                                    !.adds = IF writeOk /\ inflight[w].op = "add_message"
                                             THEN @ + 1 ELSE @,
                                    !.clobbered = @ \/ (writeOk /\ inflight[w].stale)]
           ELSE IF writeOk /\ inflight[x].stage = "loaded"
                THEN [inflight[x] EXCEPT !.stale = TRUE]
                ELSE inflight[x]]
    /\ UNCHANGED <<clockVars, users_profile, merges, cacheVars, turnVars, tool_call>>

\* second half of an operation: the loaded record, changed, is written back
\* whole (self.save_session(user_id, session)); a writer that loaded before
\* this save now holds a stale record
WriterSave(w, writeOk) ==
    /\ inflight[w].stage = "loaded"
    /\ Faulting(<<writeOk>>)
    /\ store' = SaveSession(StoreUser,
                            WriterEffect(w, inflight[w].op, inflight[w].snapshot, now), writeOk)
    /\ inflight' = [x \in Writers |->
           IF x = w
           THEN [inflight[w] EXCEPT !.stage = "saved", !.wrote = writeOk, !.done = @ + 1,
                                    !.adds = IF writeOk /\ inflight[w].op = "add_message"
                                             THEN @ + 1 ELSE @,
                                    !.clobbered = @ \/ (writeOk /\ inflight[w].stale)]
           ELSE IF writeOk /\ inflight[x].stage = "loaded"
                THEN [inflight[x] EXCEPT !.stale = TRUE]
                ELSE inflight[x]]
    /\ UNCHANGED <<clockVars, users_profile, merges, cacheVars, turnVars, tool_call>>

\* one caller: the operations run one at a time, storage faults included
NextStore ==
    \/ \E op \in WriterOps, readOk \in BOOLEAN : WriterLoad("w1", op, readOk)
    \/ \E writeOk \in BOOLEAN : WriterSave("w1", writeOk)

SpecStore == Init /\ [][NextStore]_vars

\* two callers side by side, the storage working
NextWriters ==
    \/ \E w \in Writers, op \in WriterOps : WriterLoad(w, op, TRUE)
    \/ \E w \in Writers : WriterSave(w, TRUE)

SpecWriters == Init /\ [][NextWriters]_vars

\* ------------------------------------------------------------------------
\* Properties of process_user_message
\* ------------------------------------------------------------------------

\* C1: process_user_message always returns a string and never raises, in
\* chat mode and in info mode alike, whatever fault a model invocation or a
\* tool raises.
C1_NeverRaises == pc = "done" => result.kind \in {"returned", "fallback"}

\* C2: an info-mode turn issues at most 2 model invocations; after the
\* second one no tool runs and no further invocation happens, and the text of
\* the second reply is returned as it is, also when that reply asks for tools.
C2_InfoAtMostTwoInvocations ==
    call.mode = "info" =>
        /\ invocations <= 2
        /\ tools_run <= MaxCalls
        /\ invocations = 2 => pc \in CommitPcs \cup {"done"}
        /\ (invocations = 2 /\ pc \in CommitPcs) => response_text = ai_msg.content
        /\ (invocations = 2 /\ pc = "done" /\ result.kind = "returned")
               => result.value = ai_msg.content

C2_Witness ==
    /\ pc = "done"
    /\ call.mode = "info"
    /\ invocations = 2
    /\ tools_run = 1
    /\ ai_msg.tool_calls # <<>>
    /\ ai_msg.content = "answer"
    /\ result = Returned("answer")

\* C3: after a successful call, in either mode, whose storage writes all
\* succeeded, the stored history is the history from before the call plus the
\* user message (content = text) and then the assistant message (content =
\* the returned string), and last_visit is set after both appends.
C3_TurnAppendsTwoEntries ==
    LET h == store[call.user_id].conversation_history
        h0 == pre.conversation_history
    IN  /\ (pc \in {"append_assistant", "update_visit"} /\ writes_ok)
               => store[call.user_id].last_visit = pre.last_visit
        /\ (pc = "update_visit" /\ writes_ok) => Len(h) = Len(h0) + 2
        /\ (pc = "done" /\ result.kind = "returned" /\ writes_ok) =>
               /\ Len(h) = Len(h0) + 2
               /\ SubSeq(h, 1, Len(h0)) = h0
               /\ h[Len(h) - 1].role = "user"
               /\ h[Len(h) - 1].content = call.text
               /\ h[Len(h)].role = "assistant"
               /\ h[Len(h)].content = result.value
               /\ store[call.user_id].last_visit = IsoFormat(now)

\* C4: in chat mode an exception raised while the graph runs (persona or
\* tool node) ends the call with the one fixed error string, the graph is not
\* run again, and the stored session record is what it was before the call.
C4_FaultState ==
    /\ (pc = "done" /\ call.mode # "info") => result.kind \in {"returned", "fallback"}
    /\ (pc = "done" /\ result.kind = "fallback") =>
           /\ call.mode # "info"
           /\ result.value = ERROR_TEXT
           /\ store[call.user_id] = pre

C4_FaultStep ==
    (pc \in GraphPcs /\ result'.kind = "fallback") =>
        /\ pc' = "done"
        /\ invocations' = invocations
        /\ store' = store

C4_ChatFaultLeavesSessionUntouched == [](C4_FaultState) /\ [][C4_FaultStep]_vars

C4_Witness ==
    /\ pc = "done"
    /\ result.kind = "fallback"
    /\ tools_run > 0
    /\ invocations > 0
    /\ pre.conversation_history # <<>>

\* C9: the information persona is selected exactly for mode "info" and the
\* companion persona for every other or missing mode, and the call runs only
\* the manual flow in mode "info" and only the companion graph otherwise.
C9_ModeDispatch ==
    /\ \A m \in Modes \cup {MISSING, ""} : (RouteMode(m) = "info_agent") <=> (m = "info")
    /\ \A m \in Modes \cup {MISSING, ""} : (RouteMode(m) = "empathy_agent") <=> (m # "info")
    /\ call.mode = "info" => (pc \notin GraphPcs /\ ran \subseteq {"info_flow"})
    /\ call.mode # "info" =>
           (pc \notin InfoPcs \cup {"info_agent", "info_tools_node"}
            /\ ran \subseteq {"empathy_agent", "tools"})

C9_Witness ==
    /\ pc = "done"
    /\ call.mode = "diary"
    /\ ran = {"empathy_agent", "tools"}
    /\ result.kind = "returned"

\* ------------------------------------------------------------------------
\* Properties of the welcome-back policy
\* ------------------------------------------------------------------------

\* C5: the welcome-back decision is true exactly when the mode is "chat", a
\* well-formed last-visit timestamp is stored, the stored history has at least
\* one entry and more than 30 minutes have passed since the last visit; it is
\* false for every gap of 30 minutes or less, without last_visit, and in every
\* other mode.
C5_WelcomeDecision ==
    tool_call.op = "_should_show_welcome" =>
        LET s == store[tool_call.user_id]
        IN  tool_call.show <=>
                /\ tool_call.mode = "chat"
                /\ s.last_visit.k = "iso"
                /\ Len(s.conversation_history) >= 1
                /\ now - s.last_visit.t >= WELCOME_COOLDOWN_MINUTES + 1

C5_Witness ==
    /\ tool_call.op = "_should_show_welcome"
    /\ tool_call.show
    /\ now - store["u1"].last_visit.t = WELCOME_COOLDOWN_MINUTES + 1

\* C6: the greeting is a 4-way classification: no last-visit record gives the
\* first-time greeting, 0 elapsed whole days the "continue" text, exactly 1
\* day the "slept well?" text, more than 1 day the "long time" text; there is
\* no other outcome, and the "long time" text comes only with more than 1
\* elapsed day, whatever last_visit is stored (later than the clock or not
\* parseable included).
C6_FourWayGreeting ==
    tool_call.op = "get_welcome_message" =>
        LET s == store[tool_call.user_id]
            title == HonorificTitle(Or(Get(s.user_profile, "name"), Get(s.user_profile, "A1")))
            first == FIRST_TIME_PREFIX \o title \o FIRST_TIME_SUFFIX
            days == DaysDiff(now, s.last_visit.t)
        IN  /\ tool_call.text \in {first, title \o CONTINUE_SUFFIX,
                                   title \o SLEPT_WELL_SUFFIX, title \o LONG_TIME_SUFFIX}
            /\ s.last_visit.k \in {"null", "empty"} => tool_call.text = first
            /\ (s.last_visit.k = "iso" /\ days = 0) => tool_call.text = title \o CONTINUE_SUFFIX
            /\ (s.last_visit.k = "iso" /\ days = 1) => tool_call.text = title \o SLEPT_WELL_SUFFIX
            /\ (s.last_visit.k = "iso" /\ days > 1) => tool_call.text = title \o LONG_TIME_SUFFIX
            /\ tool_call.text = title \o LONG_TIME_SUFFIX => (s.last_visit.k = "iso" /\ days > 1)

\* ------------------------------------------------------------------------
\* Properties of profile normalization
\* ------------------------------------------------------------------------

\* C8: merging the same raw profile a second time leaves the stored profile
\* as the first merge made it, also when the raw profile carries empty
\* explicit fields next to raw checklist keys.
C8_NormalizeIdempotent ==
    (tool_call.op = "update_user_profile" /\ merges >= 2) => tool_call.after = tool_call.before

C8_Witness ==
    /\ tool_call.op = "update_user_profile"
    /\ merges = 2
    /\ "name" \in DOMAIN users_profile["u1"]
    /\ users_profile["u1"]["name"] = ""
    /\ Get(users_profile["u1"], "A1") = "ticked"
    /\ Get(users_profile["u1"], "mobility") = ""
    /\ Get(users_profile["u1"], "A4") = "ticked"
    /\ tool_call.after["name"] = "ticked"
    /\ tool_call.after["activity_range"] = "ticked"

\* ------------------------------------------------------------------------
\* Properties of the recommendation tool
\* ------------------------------------------------------------------------

\* C7: a recommendation call never returns an activity label that an
\* earlier call for the same user id returned, however many calls were made
\* before; when no unseen candidate remains it returns the "nothing new"
\* sentinel and never an empty result.
C7_NoRepeatedRecommendation ==
    /\ \A k \in CacheKeys : returned[k] \subseteq recommended[k]
    /\ (tool_call.op = "recommend_activities_tool" /\ ~tool_call.raised) =>
           /\ Range(tool_call.labels) \cap tool_call.before = {}
           /\ tool_call.text # ""
           /\ (tool_call.labels = <<>> /\ clients = "ready") => tool_call.text = NOTHING_NEW_TEXT
           /\ tool_call.labels # <<>> => tool_call.text \notin {NOTHING_NEW_TEXT, DB_ERROR_TEXT}

C7_Witness ==
    /\ tool_call.op = "recommend_activities_tool"
    /\ tools_run = 2
    /\ tool_call.before # {}
    /\ tool_call.repeats # {}
    /\ tool_call.labels # <<>>

\* ------------------------------------------------------------------------
\* Properties of the facility search
\* ------------------------------------------------------------------------
\* C10: search_funeral_facilities, for every regions list including the
\* empty one, returns (does not raise), asks each region's sub-search in
\* list order for 10 // n results (10 for a single or no region), and its
\* merged output has no two entries with the same content, keeps
\* first-seen order and has at most 10 entries.
C10_BudgetSplitAndMerge ==
    (tool_call.op = "search_funeral_facilities" /\ tool_call.status # "db_error") =>
        /\ tool_call.status = "returned"
        /\ LET list == EffectiveRegions(tool_call.region, tool_call.regions)
               n == Len(list)
               out == tool_call.output
               all == tool_call.results_list
               First(c) == CHOOSE i \in 1..Len(all) :
                               /\ all[i].page_content = c
                               /\ \A j \in 1..(i - 1) : all[j].page_content # c
           IN  /\ tool_call.k = FacilityBudget \div n
               /\ n = 1 => tool_call.k = FacilityBudget
               /\ Len(tool_call.searches) = n
               /\ \A i \in 1..n : /\ tool_call.searches[i].region = list[i]
                                  /\ tool_call.searches[i].k = FacilityBudget \div n
               /\ \A a, b \in 1..Len(out) : a # b => out[a].page_content # out[b].page_content
               /\ {out[a].page_content : a \in 1..Len(out)}
                      = {all[i].page_content : i \in 1..Len(all)}
               /\ \A a \in 1..Len(out) : out[a] = all[First(out[a].page_content)]
               /\ \A a, b \in 1..Len(out) :
                      a < b => First(out[a].page_content) < First(out[b].page_content)
               /\ Len(out) <= FacilityBudget

\* ------------------------------------------------------------------------
\* Properties of the manual single-pass discipline
\* ------------------------------------------------------------------------

\* C11: a requested call whose name is not an information tool gets the
\* synthetic "tool not found" result carrying the call's id; no tool runs for
\* it, nothing is raised, the remaining calls of the reply are still handled
\* and the second model invocation still happens.
C11_UnknownToolState ==
    /\ (tool_call.op = "info_tool" /\ tool_call.name \notin TOOLS_INFO
            /\ pc \in {"info_tools", "append_user"}) =>
           /\ tool_call.outcome = "not_found"
           /\ tool_call.at \in 1..Len(tool_messages)
           /\ tool_messages[tool_call.at] = ToolMessage(NotFoundText(tool_call.name), tool_call.id)
    /\ (pc = "append_user" /\ tool_messages # <<>>) => invocations = 2
    /\ pc = "info_tools" => result = NoResult

C11_UnknownToolStep ==
    (pc = "info_tools" /\ pending # <<>> /\ Head(pending).name \notin TOOLS_INFO) =>
        /\ tools_run' = tools_run
        /\ result' = NoResult
        /\ pc' = "info_tools"
        /\ pending' = Tail(pending)
        /\ Len(tool_messages') = Len(tool_messages) + 1

C11_UnknownToolGetsNotFoundResult == [](C11_UnknownToolState) /\ [][C11_UnknownToolStep]_vars

C11_Witness ==
    /\ pc = "append_user"
    /\ invocations = 2
    /\ tools_run = 1
    /\ Len(tool_messages) = 2
    /\ tool_messages[1] = ToolMessage(NotFoundText("missing_tool"), CallId(1))
    /\ tool_messages[2] = ToolMessage("documents", CallId(2))

\* C12: a tool that raises is captured as the tool result "tool execution
\* failed: <cause>" of its call; the fault does not propagate, the other
\* requested tools still run, and the turn goes on to the second invocation
\* and returns its text.
C12_ToolFaultState ==
    /\ (tool_call.op = "info_tool" /\ tool_call.outcome = "raise"
            /\ pc \in {"info_tools", "append_user"}) =>
           /\ tool_call.at \in 1..Len(tool_messages)
           /\ tool_messages[tool_call.at] = ToolMessage(ToolFailedText("fault"), tool_call.id)
    /\ (pc = "append_user" /\ \E i \in 1..Len(tool_messages) :
                                  tool_messages[i].content = ToolFailedText("fault")) =>
           /\ invocations = 2
           /\ tools_run = Cardinality({i \in 1..Len(tool_messages) :
                              tool_messages[i].content # NotFoundText("missing_tool")})
           /\ response_text = ai_msg.content
           /\ result = NoResult

C12_ToolFaultStep ==
    (pc = "info_tools" /\ pending # <<>> /\ Head(pending).name \in TOOLS_INFO) =>
        /\ tools_run' = tools_run + 1
        /\ result' = NoResult
        /\ pc' = "info_tools"
        /\ pending' = Tail(pending)

C12_ToolFaultBecomesResult == [](C12_ToolFaultState) /\ [][C12_ToolFaultStep]_vars

C12_Witness ==
    /\ pc = "append_user"
    /\ invocations = 2
    /\ tools_run = 2
    /\ tool_messages = <<ToolMessage(ToolFailedText("fault"), CallId(1)),
                         ToolMessage("documents", CallId(2))>>
    /\ response_text = "answer"

\* C18: when the first reply asks for no tool, exactly one model invocation
\* is made and its text is the response; otherwise every requested call is
\* handled before the second invocation, whose input is the input of the
\* first invocation, then the first reply, then all tool results of the turn.
C18_SinglePassState ==
    call.mode = "info" =>
        /\ (pc = "append_user" /\ invocations = 1) =>
               /\ ai_msg.tool_calls = <<>>
               /\ tool_messages = <<>>
               /\ response_text = ai_msg.content
        /\ (pc = "append_user" /\ invocations = 2) => tool_messages # <<>>
        /\ pc = "append_user" => invocations \in {1, 2}
        /\ (pc = "info_tools" /\ invocations = 1) =>
               llm_input = <<SystemMessage(INFO_SYSTEM_PROMPT)>>
                               \o HistoryMessages(session.conversation_history)
                               \o <<HumanMessage(call.text)>>

C18_SinglePassStep ==
    /\ (pc = "info_first" /\ pc' = "append_user") => ai_msg'.tool_calls = <<>>
    /\ (pc = "info_first" /\ pc' = "info_tools") => ai_msg'.tool_calls # <<>>
    /\ (pc = "info_tools" /\ invocations' = invocations + 1) =>
           /\ pending = <<>>
           /\ ai_msg.tool_calls # <<>>
           /\ Len(tool_messages) = Len(ai_msg.tool_calls)
           /\ llm_input' = llm_input \o <<AIMessage(ai_msg)>> \o tool_messages

C18_OneOrTwoInvocations == [](C18_SinglePassState) /\ [][C18_SinglePassStep]_vars

C18_Witness ==
    /\ pc = "append_user"
    /\ call.mode = "info"
    /\ invocations = 2
    /\ Len(session.conversation_history) = 2
    /\ Len(tool_messages) = 2
    /\ Len(llm_input) = 7
    /\ llm_input[5].tool_calls # <<>>
    /\ llm_input[6] = tool_messages[1]
    /\ llm_input[7] = tool_messages[2]

\* C19: a manual-discipline turn has exactly one tool result per requested
\* call (found, not found or failed), the results stand in the message
\* sequence in the order in which the persona issued the calls, and each
\* result carries the id of its own call.
C19_ResultsState ==
    LET Matches(m, c) ==
            /\ m.type = "tool"
            /\ m.tool_call_id = c.id
            /\ IF c.name \in TOOLS_INFO
               THEN m.content \in {"documents", DB_ERROR_TEXT, ToolFailedText("fault")}
               ELSE m.content = NotFoundText(c.name)
    IN  (call.mode = "info" /\ pc = "info_tools") =>
            /\ Len(tool_messages) + Len(pending) = Len(ai_msg.tool_calls)
            /\ \A i \in 1..Len(tool_messages) : Matches(tool_messages[i], ai_msg.tool_calls[i])
            /\ \A i \in 1..Len(pending) : pending[i] = ai_msg.tool_calls[Len(tool_messages) + i]

C19_ResultsStep ==
    LET Matches(m, c) ==
            /\ m.type = "tool"
            /\ m.tool_call_id = c.id
            /\ IF c.name \in TOOLS_INFO
               THEN m.content \in {"documents", DB_ERROR_TEXT, ToolFailedText("fault")}
               ELSE m.content = NotFoundText(c.name)
    IN  (pc = "info_tools" /\ invocations' = invocations + 1) =>
            LET calls == ai_msg.tool_calls
                n == Len(messages)
            IN  /\ Len(messages') = n + 1 + Len(calls)
                /\ SubSeq(messages', 1, n) = messages
                /\ messages'[n + 1] = AIMessage(ai_msg)
                /\ \A i \in 1..Len(calls) : Matches(messages'[n + 1 + i], calls[i])

C19_OneResultPerCallInOrder == [](C19_ResultsState) /\ [][C19_ResultsStep]_vars

C19_Witness ==
    /\ pc = "append_user"
    /\ invocations = 2
    /\ Len(messages) = 5
    /\ messages[3].tool_calls = <<[name |-> "search_legacy", id |-> CallId(1)],
                                  [name |-> "missing_tool", id |-> CallId(2)]>>
    /\ messages[4] = ToolMessage(DB_ERROR_TEXT, CallId(1))
    /\ messages[5] = ToolMessage(NotFoundText("missing_tool"), CallId(2))

\* ------------------------------------------------------------------------
\* Properties of the session store
\* ------------------------------------------------------------------------

\* C13: the stored history is append-only: whatever load_session,
\* add_message, update_last_visit or update_user_profile call runs, one at a
\* time and also when reading the stored record fails, every entry that was
\* in the stored history is still there afterwards, in the same relative order.
C13_HistoryAppendOnly ==
    [][\A u \in Users :
          LET old == store[u].conversation_history
              new == store'[u].conversation_history
          IN  \E f \in [1..Len(old) -> 1..Len(new)] :
                  /\ \A i \in 1..Len(old) : new[f[i]] = old[i]
                  /\ \A i, j \in 1..Len(old) : i < j => f[i] < f[j]]_vars

\* C14: the store writes back the whole record it loaded, whatever was
\* saved in between; with two writers for one user a completed write can
\* therefore be missing from the stored record, and it is missing only after
\* a writer saved a record it had loaded before another writer's save.
C14_WritersState ==
    (\A w \in Writers : ~inflight[w].clobbered) =>
        \A w \in Writers :
            Cardinality({i \in 1..Len(store[StoreUser].conversation_history) :
                            store[StoreUser].conversation_history[i].content = WriterText(w)})
                = inflight[w].adds

C14_WritersStep ==
    \A w \in Writers :
        (inflight[w].stage = "loaded" /\ inflight'[w].stage = "saved") =>
            store'[StoreUser] = [WriterEffect(w, inflight[w].op, inflight[w].snapshot, now)
                                     EXCEPT !.exists = TRUE]

C14_ReadThenWriteLosesUpdates == [](C14_WritersState) /\ [][C14_WritersStep]_vars

C14_Witness ==
    /\ inflight["w1"].stage = "saved"
    /\ inflight["w1"].op = "add_message"
    /\ inflight["w1"].wrote
    /\ inflight["w1"].adds = 1
    /\ inflight["w2"].stage = "saved"
    /\ inflight["w2"].op = "update_last_visit"
    /\ inflight["w2"].wrote
    /\ store[StoreUser].last_visit = IsoFormat(now)
    /\ store[StoreUser].conversation_history = <<>>

\* ------------------------------------------------------------------------
\* Properties of the companion tools' seen-sets
\* ------------------------------------------------------------------------

\* C17: the empathy-question tool clamps depth to 1..3 and asks the index
\* for 3 + depth candidates; it returns at most 3 questions; when some
\* candidate carries a text the user has not seen, no returned question is in
\* the seen-set or repeated in the batch, and the returned questions are
\* added to the seen-set; when every candidate is filtered out but
\* candidates exist, it returns the first three candidates as they came and
\* leaves the seen-set as it was.
C17_EmpathyQuestions ==
    (tool_call.op = "search_empathy_questions_tool" /\ ~tool_call.raised /\ tool_call.ready) =>
        LET uid == IF tool_call.user_id = "" THEN GLOBAL_KEY ELSE tool_call.user_id
            qs == tool_call.questions
            fresh == \E c \in tool_call.candidates : c # "" /\ c \notin tool_call.before
        IN  /\ tool_call.depth < 1 => tool_call.top_k = 4
            /\ tool_call.depth \in 1..3 => tool_call.top_k = 3 + tool_call.depth
            /\ tool_call.depth > 3 => tool_call.top_k = 6
            /\ tool_call.count <= tool_call.top_k
            /\ Len(qs) <= 3
            /\ fresh =>
                   /\ qs # <<>>
                   /\ ~tool_call.fallback
                   /\ Range(qs) \cap tool_call.before = {}
                   /\ \A i, j \in 1..Len(qs) : i # j => qs[i] # qs[j]
                   /\ asked[uid] = tool_call.before \cup Range(qs)
            /\ (~fresh /\ tool_call.count > 0) =>
                   /\ tool_call.fallback
                   /\ qs = tool_call.raw
                   /\ Len(qs) = (IF tool_call.count < 3 THEN tool_call.count ELSE 3)
                   /\ asked[uid] = tool_call.before
            /\ tool_call.count = 0 =>
                   /\ qs = <<>>
                   /\ tool_call.text = NO_QUESTION_TEXT
                   /\ asked[uid] = tool_call.before

\* a second call for a user who has seen questions, with depth above the
\* clamp, where some candidates are seen and one is new
C17_Witness ==
    /\ tool_call.op = "search_empathy_questions_tool"
    /\ ~tool_call.raised
    /\ tools_run = 2
    /\ tool_call.depth = 5
    /\ tool_call.top_k = 6
    /\ tool_call.count = 5
    /\ tool_call.before # {}
    /\ tool_call.candidates \cap tool_call.before # {}
    /\ tool_call.questions # <<>>
    /\ ~tool_call.fallback

\* C15: the seen-set of recommended activities and the seen-set of asked
\* questions of every user only grow: no step removes an entry from either.
C15_SeenSetsGrow ==
    [][\A k \in CacheKeys : /\ recommended[k] \subseteq recommended'[k]
                            /\ asked[k] \subseteq asked'[k]]_vars

\* a second question call for a user whose seen-set was not empty: the old
\* entries are kept and new ones added, while the activity set is kept too
C15_Witness ==
    /\ tool_call.op = "search_empathy_questions_tool"
    /\ tools_run = 2
    /\ tool_call.before # {}
    /\ tool_call.before \subseteq asked[CacheKey(tool_call.user_id)]
    /\ asked[CacheKey(tool_call.user_id)] # tool_call.before

\* ------------------------------------------------------------------------
\* Properties of the ordinance searches
\* ------------------------------------------------------------------------

\* C16: in an ordinance search the filter always carries the document type
\* of the tool; its region part is an equality on the matched region when
\* exactly one region of the list matched, an "in" clause over the matches
\* when two or three matched, and absent when no region was given or none
\* matched.
C16_OrdinanceFilter ==
    (tool_call.op \in OrdinanceTools /\ tool_call.searched) =>
        LET f == tool_call.filter
            list == IF tool_call.op = "search_public_funeral_ordinance"
                    THEN PUBLIC_FUNERAL_ORDINANCE
                    ELSE CREMATION_DETAIL \o CREMATION_ETCETERA
            region == tool_call.region
            hits == {r \in Range(list) : Contains(region, r) \/ Contains(r, region)}
            n == Len(f.regions)
        IN  /\ f.type = (IF tool_call.op = "search_public_funeral_ordinance"
                         THEN "Public_Funeral_Ordinance" ELSE "Cremation_Subsidy_Ordinance")
            /\ n <= 3
            /\ Range(f.regions) \subseteq Range(list)
            /\ \A i, j \in 1..n : i # j => f.regions[i] # f.regions[j]
            /\ f.kind = (IF n = 0 THEN "none" ELSE IF n = 1 THEN "eq" ELSE "in")
            /\ region = "" => n = 0
            /\ (region # "" /\ hits # {}) =>
                   /\ Range(f.regions) \subseteq hits
                   /\ n = (IF Cardinality(hits) < 3 THEN Cardinality(hits) ELSE 3)
            /\ region = "Suwn" => (f.kind = "eq" /\ f.regions = <<"Suwon">>)
            /\ region = "Daegu" => f.kind = "none"

\* a search with one matched region, after a search with several
C16_Witness ==
    /\ tool_call.op = "search_public_funeral_ordinance"
    /\ tool_call.searched
    /\ tools_run = 2
    /\ tool_call.region = "Seoul Jongno office"
    /\ tool_call.filter.kind = "eq"
    /\ tool_call.filter.regions = <<"Seoul Jongno">>
    /\ tool_call.filter.type = "Public_Funeral_Ordinance"

\* ------------------------------------------------------------------------
\* Properties of the auto-looping discipline
\* ------------------------------------------------------------------------

\* the tool node runs only on the calls of a persona reply that asked for tools
C20_LoopState ==
    pc = "tools" =>
        /\ call.mode # "info"
        /\ pending # <<>>
        /\ ai_msg.tool_calls # <<>>

\* a step of the graph: the persona's reply alone decides between the tool
\* node and the end, whatever the number of rounds so far; the tool node goes
\* back to the persona when the round is over; the only other way out is a
\* fault, which ends the call with the fixed text
C20_LoopStep ==
    /\ pc = "empathy_agent" =>
           \/ /\ pc' = "tools"
              /\ ai_msg'.tool_calls # <<>>
              /\ pending' = ai_msg'.tool_calls
              /\ invocations' = invocations + 1
           \/ /\ pc' = "append_user"
              /\ ai_msg'.tool_calls = <<>>
              /\ response_text' = ai_msg'.content
              /\ invocations' = invocations + 1
              /\ invocations' = rounds + 1
           \/ /\ pc' = "done"
              /\ result' = Fallback
    /\ pc = "tools" =>
           \/ /\ pc' = "tools"
              /\ pending' = Tail(pending)
              /\ pending' # <<>>
              /\ rounds' = rounds
           \/ /\ pc' = "empathy_agent"
              /\ pending' = <<>>
              /\ Len(pending) = 1
              /\ rounds' = rounds + 1
           \/ /\ pc' = "done"
              /\ result' = Fallback

\* C20: in chat mode the graph goes back to the persona after every tool
\* round and ends only on a persona reply without tool calls; no count of
\* rounds ends it, so a turn reaches the end exactly when the persona
\* replies without tool calls, and never while it keeps asking for tools.
C20_LoopEndsOnlyOnPlainReply == [](C20_LoopState) /\ [][C20_LoopStep]_vars

\* a chat turn that used every round the bound allows and then ended on a
\* reply without tool calls
C20_Witness ==
    /\ call.mode = "chat"
    /\ pc = "append_user"
    /\ rounds = MaxRounds
    /\ invocations = MaxRounds + 1
    /\ ai_msg.tool_calls = <<>>

\* ------------------------------------------------------------------------
\* Properties of the order of a turn
\* ------------------------------------------------------------------------

\* while the executor of either mode runs, the stored record of the user is
\* the one found when the call started
C21_TurnState ==
    pc \in InfoPcs \cup GraphPcs \cup {"append_user"} => store[call.user_id] = pre

\* the store is written only by the three commit steps, which follow the
\* executor in the order user message, assistant message, last visit
C21_TurnStep ==
    /\ store' # store => pc \in CommitPcs
    /\ (pc = "idle" /\ pc' # "idle") => pc' \in InfoPcs \cup GraphPcs
    /\ (pc \in InfoPcs \cup GraphPcs) => pc' \in InfoPcs \cup GraphPcs \cup {"append_user", "done"}
    /\ (pc \in InfoPcs \cup GraphPcs /\ pc' = "append_user") =>
           /\ response_text' = ai_msg'.content
           /\ store' = store
    /\ pc = "append_user" => pc' = "append_assistant"
    /\ pc = "append_assistant" => pc' = "update_visit"
    /\ pc = "update_visit" => pc' = "done"

\* C21: in both modes nothing is written to the session store between the
\* load of the session and the end of the agent and tool loop; the turn then
\* appends the user message, appends the assistant message and updates
\* last_visit, in that order.
C21_SessionCommittedAfterLoop == [](C21_TurnState) /\ [][C21_TurnStep]_vars

\* a finished chat turn with a tool round for a user who had a stored
\* history: the two messages were appended after the loop
C21_Witness ==
    /\ pc = "done"
    /\ call.mode = "chat"
    /\ rounds >= 1
    /\ pre.exists
    /\ Len(pre.conversation_history) >= 2
    /\ writes_ok
    /\ result.kind = "returned"
    /\ Len(store[call.user_id].conversation_history) >= 2

\* ------------------------------------------------------------------------
\* Properties of the context window
\* ------------------------------------------------------------------------

\* C22: the messages given to the persona for a turn are the system
\* instruction, then the 8 most recent stored entries in stored order, then
\* the current user text once; on later invocations of the turn only replies
\* and tool results follow; no older stored entry is ever in the input.
C22_ContextIsLastEight ==
    (invocations >= 1 /\ llm_input # <<>>) =>
        LET h == pre.conversation_history
            n == Len(h)
            skip == IF n > 8 THEN n - 8 ELSE 0
            w == n - skip
        IN  /\ Len(llm_input) >= w + 2
            /\ llm_input[1].type = "system"
            /\ \A i \in 1..w :
                   /\ llm_input[1 + i].content = h[skip + i].content
                   /\ llm_input[1 + i].type = (IF h[skip + i].role = "user" THEN "human" ELSE "ai")
            /\ llm_input[w + 2] = [type |-> "human", content |-> call.text,
                                   tool_calls |-> <<>>, tool_call_id |-> ""]
            /\ \A j \in (w + 3)..Len(llm_input) : llm_input[j].type \in {"ai", "tool"}
            /\ invocations = 1 => Len(llm_input) = w + 2
            /\ \A i \in 1..skip : \A j \in 1..Len(llm_input) :
                   llm_input[j].content # h[i].content

\* the second invocation of a turn whose user had ten stored entries
C22_Witness ==
    /\ Len(pre.conversation_history) = 10
    /\ invocations = 2
    /\ Len(llm_input) = 12
    /\ llm_input[2].content = "entry 3"
    /\ llm_input[10].content = "bored"

\* ------------------------------------------------------------------------
\* Properties of one recommendation answer
\* ------------------------------------------------------------------------

\* C23: a recommendation call returns at most 3 activities, none of them
\* twice, and adds to the seen-set of the user exactly the labels it
\* returned; with the "nothing new" text or the backend-unavailable text the
\* seen-sets are what they were.
C23_RecordsWhatItReturns ==
    (tool_call.op = "recommend_activities_tool" /\ ~tool_call.raised) =>
        LET uid == IF tool_call.user_id = "" THEN GLOBAL_KEY ELSE tool_call.user_id
            ls == tool_call.labels
        IN  /\ Len(ls) <= 3
            /\ \A i, j \in 1..Len(ls) : i # j => ls[i] # ls[j]
            /\ Range(ls) \subseteq tool_call.candidates \ {""}
            /\ recommended[uid] = tool_call.cache_before[uid] \cup Range(ls)
            /\ \A k \in CacheKeys \ {uid} : recommended[k] = tool_call.cache_before[k]
            /\ tool_call.text \in {NOTHING_NEW_TEXT, DB_ERROR_TEXT} =>
                   /\ ls = <<>>
                   /\ recommended = tool_call.cache_before
            /\ ls # <<>> => tool_call.text \notin {NOTHING_NEW_TEXT, DB_ERROR_TEXT}

\* four new activities were offered, three came back and the fourth is not
\* in the seen-set
C23_Witness ==
    /\ tool_call.op = "recommend_activities_tool"
    /\ ~tool_call.raised
    /\ tool_call.user_id = "u1"
    /\ Len(tool_call.labels) = 3
    /\ Cardinality(tool_call.candidates \ {""}) = 4
    /\ tool_call.cache_before["u1"] = {}
    /\ Cardinality(recommended["u1"]) = 3

\* ------------------------------------------------------------------------
\* Properties of companion tools run side by side
\* ------------------------------------------------------------------------

\* a call picks a label another call has picked only while the two overlap
C24_RaceState ==
    /\ \A t \in Threads : running[t].dup # {} => running[t].overlapped
    /\ \A t, o \in Threads :
           (/\ t # o
            /\ running[t].stage = "done" /\ running[o].stage = "done"
            /\ running[t].op = running[o].op
            /\ ~running[t].overlapped /\ ~running[o].overlapped)
               => Range(running[t].picked) \cap Range(running[o].picked) = {}

\* the loop of a call takes no lock: it can start while another call is
\* between its loop and its update
C24_RaceStep ==
    \A t \in Threads :
        (running[t].stage # "filtered" /\ running'[t].stage = "filtered") =>
            running'[t].dup \subseteq
                UNION {Range(running[o].picked) :
                           o \in {o \in Threads \ {t} : running[o].stage = "filtered"}}

\* C24: two recommendation calls for the same user that overlap (both run
\* their filter before either records) can return the same label; calls that
\* do not overlap never do.
C24_RepeatOnlyWhenOverlapping == [](C24_RaceState) /\ [][C24_RaceStep]_vars

\* both threads have answered the same user with the same activity
C24_Witness ==
    /\ running["t1"].stage = "done" /\ running["t2"].stage = "done"
    /\ running["t1"].op = "recommend_activities_tool"
    /\ running["t2"].op = "recommend_activities_tool"
    /\ running["t1"].picked = <<"walk">>
    /\ running["t2"].picked = <<"walk">>
    /\ running["t2"].dup = {"walk"}
    /\ running["t1"].calls = 1 /\ running["t2"].calls = 1

\* C25 as stated: after two overlapping calls for the same user have both
\* completed, the additions of one of them are no longer in the seen-set.
C25_LastWriteWins ==
    \A t, o \in Threads :
        (/\ t # o
         /\ running[t].stage = "done" /\ running[o].stage = "done"
         /\ running[t].op = running[o].op
         /\ running[t].overlapped /\ running[o].overlapped
         /\ Range(running[t].picked) # Range(running[o].picked))
            => ~(Range(running[t].picked) \cup Range(running[o].picked)
                     \subseteq SeenSet(running[t].op)[RaceUser])

\* what a finished call picked is in the seen-set
C25_KeptState ==
    \A t \in Threads :
        running[t].stage = "done" => Range(running[t].picked) \subseteq SeenSet(running[t].op)[RaceUser]

\* no step takes an entry out of a seen-set
C25_KeptStep ==
    \A k \in CacheKeys : recommended[k] \subseteq recommended'[k] /\ asked[k] \subseteq asked'[k]

\* C25, amended: the update is made in place on the shared set, so under
\* the race no addition is lost: after two overlapping calls have completed
\* the seen-set holds the additions of both.
C25_NoAdditionLost == [](C25_KeptState) /\ [][C25_KeptStep]_vars

\* two overlapping calls with different additions have completed
C25_Witness ==
    /\ running["t1"].stage = "done" /\ running["t2"].stage = "done"
    /\ running["t1"].overlapped /\ running["t2"].overlapped
    /\ running["t1"].picked = <<"walk">>
    /\ running["t2"].picked = <<"music">>
    /\ running["t1"].calls = 1 /\ running["t2"].calls = 1
    /\ recommended[RaceUser] = {"walk", "music"}

\* ------------------------------------------------------------------------
\* Properties of the seen-sets across a faulted turn
\* ------------------------------------------------------------------------

\* C26: when a chat turn ends in the fixed error string, the user's
\* recommended-activity and asked-question seen-sets are what they were when
\* the turn started, even when a tool round completed before the fault.
C26_FaultDiscardsSeenSets ==
    (pc = "done" /\ result.kind = "fallback") =>
        /\ recommended[CacheKey(call.user_id)] = pre_seen.recommended[CacheKey(call.user_id)]
        /\ asked[CacheKey(call.user_id)] = pre_seen.asked[CacheKey(call.user_id)]

\* ------------------------------------------------------------------------
\* Properties of region matching
\* ------------------------------------------------------------------------

\* the regions of a list that hold the input or are held by it, in list order
C27_Direct(user_input, region_list) ==
    SelectSeq(region_list, LAMBDA r : Contains(user_input, r) \/ Contains(r, user_input))

\* the regions of a list that difflib finds close to the input, best first
C27_Close(user_input, region_list) ==
    SelectSeq(SimilarRegions(user_input), LAMBDA r : r \in Range(region_list))

\* the first n entries of a sequence
C27_FirstN(seq, n) == SubSeq(seq, 1, IF Len(seq) < n THEN Len(seq) ELSE n)

\* C27: find_matching_regions returns at most n regions: the regions that
\* hold the input or are held by it, in list order and cut at n; the close
\* matches only when there is no such region; and no match at all leaves the
\* search running without a region filter.
C27_RegionMatching ==
    /\ (tool_call.op \in OrdinanceTools /\ tool_call.searched /\ tool_call.region # "") =>
           LET list == OrdinanceRegionList(tool_call.op)
               direct == C27_Direct(tool_call.region, list)
               close == C27_Close(tool_call.region, list)
               got == tool_call.filter.regions
           IN  /\ Len(got) <= OrdinanceK
               /\ direct # <<>> => got = C27_FirstN(direct, OrdinanceK)
               /\ direct = <<>> => got = C27_FirstN(close, OrdinanceK)
               /\ (direct = <<>> /\ close = <<>>) =>
                      /\ tool_call.filter.kind = "none"
                      /\ tool_call.status \in {"returned", "raised"}
                      /\ tool_call.status = "returned" => tool_call.text # DB_ERROR_TEXT
    /\ \A rgn \in RegionInputs :
           LET direct == C27_Direct(rgn, ALL_REGIONS)
               close == C27_Close(rgn, ALL_REGIONS)
               got == FindMatchingRegions(rgn, ALL_REGIONS, FacilityMatchLimit)
           IN  /\ got = IF direct # <<>> THEN direct ELSE close
               /\ got = <<>> => FacilityFilter(rgn) = NoFilter

\* a search for a region name that four entries of the list hold, and that
\* difflib finds close to two of them
C27_Witness ==
    /\ tool_call.op = "search_public_funeral_ordinance"
    /\ tool_call.region = "Seoul"
    /\ tool_call.status = "returned"
    /\ Len(C27_Direct("Seoul", PUBLIC_FUNERAL_ORDINANCE)) = 4
    /\ C27_Close("Seoul", PUBLIC_FUNERAL_ORDINANCE) # <<>>
    /\ tool_call.filter.regions = <<"Seoul Gangnam", "Seoul Jongno", "Seoul Mapo">>

\* ------------------------------------------------------------------------
\* Properties of client initialisation
\* ------------------------------------------------------------------------

\* what the latest tool call shows
C28_SentinelState ==
    /\ (tool_call.op \in TOOLS /\ clients # "ready") =>
           (~tool_call.raised /\ tool_call.text = DB_ERROR_TEXT)
    /\ (tool_call.op \in TOOLS /\ clients = "ready") => tool_call.text # DB_ERROR_TEXT
    /\ tool_call.op \in TOOLS_INFO =>
           /\ (tool_call.text = DB_ERROR_TEXT) <=>
                  (tool_call.clients_before # "ready" /\ ~tool_call.init_ok)
           /\ tool_call.text = DB_ERROR_TEXT => (~tool_call.raised /\ info_clients = "failed")
           /\ tool_call.text # DB_ERROR_TEXT => info_clients = "ready"

\* companion clients: one attempt settles them; information clients: only
\* success settles them; neither module touches the other's clients
C28_SentinelStep ==
    /\ clients # "unattempted" => clients' = clients
    /\ info_clients = "ready" => info_clients' = "ready"
    /\ (clients = "failed" /\ tools_run' # tools_run /\ tool_call'.op \in TOOLS) =>
           (/\ clients' = "failed"
            /\ tool_call'.text = DB_ERROR_TEXT
            /\ recommended' = recommended /\ asked' = asked)
    /\ (tools_run' # tools_run /\ tool_call'.op \in TOOLS) => info_clients' = info_clients
    /\ (tools_run' # tools_run /\ tool_call'.op \in TOOLS_INFO) => clients' = clients

\* C28: a companion tool without its backend answers with the sentinel and
\* does not raise; initialisation is attempted once per process, so after
\* one failed attempt every later companion call answers with the sentinel;
\* an information tool attempts initialisation at every call until one
\* attempt succeeds.
C28_InitOncePerProcess == [](C28_SentinelState) /\ [][C28_SentinelStep]_vars

\* the second companion call of a process whose first companion call failed
\* to initialise the clients
C28_Witness ==
    /\ clients = "failed"
    /\ info_clients = "unset"
    /\ tools_run = 2
    /\ tool_call.op = "search_empathy_questions_tool"
    /\ tool_call.text = DB_ERROR_TEXT

\* ------------------------------------------------------------------------
\* Properties of the graph's routing
\* ------------------------------------------------------------------------

\* C29: in the graph, the continue decision after a persona's reply names
\* a key of that persona's path map, a tool request goes to that persona's
\* own tool node, and the tool node hands control back to the same persona.
C29_DecisionStep ==
    /\ (pc \in {"empathy_agent", "info_agent"} /\ invocations' = invocations + 1) =>
           /\ ShouldContinue(ai_msg') \in DOMAIN EdgeMap(pc)
           /\ ai_msg'.tool_calls # <<>> =>
                  pc' = IF pc = "empathy_agent" THEN "tools" ELSE "info_tools_node"
    /\ (pc = "tools" /\ pc' # "tools") => pc' = "empathy_agent"
    /\ (pc = "info_tools_node" /\ pc' # "info_tools_node") => pc' = "info_agent"

C29_ToolRequestStaysWithPersona == [][C29_DecisionStep]_vars

\* ------------------------------------------------------------------------
\* Properties of the seen-sets across an info-mode turn
\* ------------------------------------------------------------------------

\* during and after an info-mode call the seen-sets are what they were when
\* the call started, and a companion tool the persona asked for was not run
C30_InfoState ==
    call.mode = "info" =>
        /\ recommended = pre_seen.recommended
        /\ asked = pre_seen.asked
        /\ (tool_call.op = "info_tool" /\ tool_call.name \in TOOLS) =>
               tool_call.outcome = "not_found"

\* no step of an info-mode call touches the caches or the companion clients
C30_InfoStep ==
    (call.mode = "info" \/ call'.mode = "info") =>
        /\ recommended' = recommended
        /\ asked' = asked
        /\ returned' = returned
        /\ clients' = clients
        /\ (pc = "info_tools" /\ pending # <<>> /\ Head(pending).name \in TOOLS) =>
               /\ tools_run' = tools_run
               /\ tool_messages' =
                      Append(tool_messages,
                             ToolMessage(NotFoundText(Head(pending).name), Head(pending).id))

\* C30: a turn in info mode leaves every user's recommended-activity and
\* asked-question seen-sets as they were, also when the information persona
\* asks for a companion tool by name: that call gets the "not found" result
\* and the tool is not run.
C30_InfoTurnLeavesCaches == [](C30_InfoState) /\ [][C30_InfoStep]_vars

\* an info-mode call, for a user with a recommendation on record, in which
\* the persona asked for the recommendation tool, has returned
C30_Witness ==
    /\ pc = "done"
    /\ call.mode = "info"
    /\ result.kind = "returned"
    /\ tool_call.op = "info_tool"
    /\ tool_call.name = "recommend_activities_tool"
    /\ recommended[call.user_id] = {"walk"}
    /\ invocations = 2

\* ------------------------------------------------------------------------
\* Properties of the greeting across the turns of one user
\* ------------------------------------------------------------------------

\* C31: a chat turn that starts within the cooldown after a successful turn
\* of the user (in either mode) returned gets no welcome-back greeting, and
\* neither does the first turn of a user without a stored session.
C31_NoGreetingSoonAfterTurn ==
    pc \notin {"idle", "done"} =>
        /\ (last_ok[call.user_id] >= 0
            /\ now - last_ok[call.user_id] <= WELCOME_COOLDOWN_MINUTES) => welcome_text = ""
        /\ ~pre.exists => welcome_text = ""

\* ------------------------------------------------------------------------
\* Properties of the returned string
\* ------------------------------------------------------------------------

\* the greeting a call would show, whether or not the policy applies
C32_Greeting == GetWelcomeMessage(pre, now)

\* C32: a chat turn to which the welcome-back policy applies returns the
\* greeting, a blank line and the persona's final plain reply, or the
\* greeting alone when that reply is empty; an info-mode turn and a chat turn
\* that ends in the fixed error string return no greeting.
C32_ReturnedString ==
    pc = "done" =>
        /\ welcome_text # "" <=> ShouldShowWelcome(session, call.mode, now)
        /\ welcome_text # "" => call.mode = "chat"
        /\ (result.kind = "returned" /\ welcome_text # "") =>
               /\ ai_msg.tool_calls = <<>>
               /\ result.value = IF ai_msg.content # ""
                                 THEN welcome_text \o "\n\n" \o ai_msg.content
                                 ELSE welcome_text
        /\ (result.kind = "returned" /\ welcome_text = "") => result.value = ai_msg.content
        /\ (result.kind = "returned" /\ call.mode = "info") =>
               /\ welcome_text = ""
               /\ ~Contains(C32_Greeting, result.value)
        /\ result.kind = "fallback" =>
               /\ result.value = ERROR_TEXT
               /\ ~Contains(C32_Greeting, result.value)
               /\ welcome_text # "" => ~Contains(welcome_text, result.value)

\* a chat turn after the cooldown has returned the greeting in front of a
\* reply that followed a tool round
C32_Witness ==
    /\ pc = "done"
    /\ call.mode = "chat"
    /\ result.kind = "returned"
    /\ welcome_text # ""
    /\ ai_msg.content = "answer"
    /\ rounds > 0
    /\ result.value = welcome_text \o "\n\n" \o "answer"

\* ------------------------------------------------------------------------
\* Properties of the cache keys
\* ------------------------------------------------------------------------

\* what one tool call does: it leaves the entries of every other key alone,
\* and what it returns and records follows from the candidates and from the
\* entry of its own key, which is the user id or, without one, the shared key
C33_KeyStep ==
    (tools_run' = tools_run + 1 /\ tool_call'.op \in TOOLS) =>
        LET uid == tool_call'.user_id
            key == IF uid = "" THEN "__global__" ELSE uid
            fresh_a == (tool_call'.candidates \ {""}) \ recommended[key]
            fresh_q == (tool_call'.candidates \ {""}) \ asked[key]
        IN  /\ \A k \in CacheKeys \ {key} :
                   recommended'[k] = recommended[k] /\ asked'[k] = asked[k]
            /\ tool_call'.op = "recommend_activities_tool" =>
                   /\ asked' = asked
                   /\ Cardinality(fresh_a) <= RecommendLimit =>
                          /\ Range(tool_call'.labels) = fresh_a
                          /\ recommended'[key] = recommended[key] \cup fresh_a
                   /\ (tool_call'.text = NOTHING_NEW_TEXT) <=> (fresh_a = {})
            /\ tool_call'.op = "search_empathy_questions_tool" =>
                   /\ recommended' = recommended
                   /\ Cardinality(fresh_q) <= QuestionLimit =>
                          /\ asked'[key] = asked[key] \cup fresh_q
                          /\ ~tool_call'.fallback => Range(tool_call'.questions) = fresh_q
                   /\ tool_call'.fallback <=> (fresh_q = {} /\ tool_call'.count > 0)

\* C33: a tool call with user id A leaves the seen-set of every other user
\* id B as it was and returns what B's earlier calls cannot change; calls
\* without a user id share the one "__global__" entry, so each sees and
\* extends what the others recorded.
C33_KeyedByUser == [][C33_KeyStep]_vars

\* user u2 is offered and handed the activity that user u1 was handed before
C33_Witness ==
    /\ tools_run = 2
    /\ tool_call.op = "recommend_activities_tool"
    /\ tool_call.user_id = "u2"
    /\ tool_call.labels = <<"walk">>
    /\ recommended["u1"] = {"walk"}
    /\ recommended["u2"] = {"walk"}
    /\ recommended["__global__"] = {}

====
